---- MODULE Spec2Model ----
(***************************************************************************)
(* The tick loop of the Ambio pendant firmware: loop() runs               *)
(* buttons_update() (the button event classifier) and then                *)
(* sensors_update() (battery cell, clock cell, IMU bar graphs, commit).   *)
(* Every call the code makes on M5.Display, M5.Led, M5.Speaker and the    *)
(* logger during one tick is appended to the trace `ops`.                 *)
(***************************************************************************)
EXTENDS Integers, Sequences, FiniteSets, TLC

(***************************************************************************)
(* Bounds of the model.                                                    *)
(***************************************************************************)
\* At most this many button channels have a raised flag in one tick.
MaxActive == 2
\* The IMU reports raw levels -MaxLevel..MaxLevel (times a step) per axis.
MaxLevel == 2
\* The busy polls of one wait are counted up to this many.
MaxPolls == 2

(***************************************************************************)
(* Program constants.                                                      *)
(***************************************************************************)
TONE_BTN_PWR == 784
TONE_BTN_A == 523
TONE_BTN_B == 587
TONE_BTN_C == 659
TONE_BTN_EXT == 698
BUTTON_TONE_DURATION_MS == 100
IMU_GRAPH_CHANNELS == 6
INT_MAX == 2147483647
\* Geometry of M5.Display as read through display_get_width/height and
\* M5.Display.fontHeight().
DisplayWidth == 128
DisplayHeight == 64
FontHeight == 8
AUDIO_TEST_TONE_LOW == 783
AUDIO_TEST_TONE_MED == 1000
AUDIO_TEST_TONE_HIGH == 2000
AUDIO_WAV_SAMPLE_RATE == 44100

\* audio.cpp
WAV_BUFFER_SIZE == 48000
WavHeaderSize == 44

BUTTON_STATE_COLORS ==
  <<"TFT_WHITE", "TFT_CYAN", "TFT_RED", "TFT_YELLOW", "TFT_BLUE", "TFT_GREEN">>

BUTTON_STATE_NAMES ==
  <<"none", "wasHold", "wasClicked", "wasPressed", "wasReleased",
    "wasDecideClickCount">>

\* Mutant: buttons_update handles BtnA before BtnPWR.
ButtonNames_AFirst == <<"BtnA", "BtnPWR", "BtnB", "BtnC", "BtnEXT">>

\* The five process_button calls of buttons_update, in call order.
ButtonNames == <<"BtnPWR", "BtnA", "BtnB", "BtnC", "BtnEXT">>
\* Mutant: the A and B channels are given each other's tone.
ButtonTones_Swapped ==
  <<TONE_BTN_PWR, TONE_BTN_B, TONE_BTN_A, TONE_BTN_C, TONE_BTN_EXT>>

\* The tone_freq arguments of the five calls (lines 71-75).
ButtonTones ==
  <<TONE_BTN_PWR, TONE_BTN_A, TONE_BTN_B, TONE_BTN_C, TONE_BTN_EXT>>
ButtonRows == <<2, 3, 4, 5, 6>>

\* The colour M5.Display.getBaseColor() returns, and the LED before any event.
BaseColor == "BASE"
LedUnset == "LED_UNSET"

(***************************************************************************)
(* printf conversions.                                                     *)
(***************************************************************************)
Digit(d) ==
  CASE d = 0 -> "0" [] d = 1 -> "1" [] d = 2 -> "2" [] d = 3 -> "3"
    [] d = 4 -> "4" [] d = 5 -> "5" [] d = 6 -> "6" [] d = 7 -> "7"
    [] d = 8 -> "8" [] d = 9 -> "9"

RECURSIVE NatStr(_)
NatStr(n) == IF n < 10 THEN Digit(n) ELSE NatStr(n \div 10) \o Digit(n % 10)

RECURSIVE ZeroPad(_, _)
ZeroPad(s, w) == IF Len(s) < w THEN ZeroPad("0" \o s, w) ELSE s

\* "%d"
FmtD(n) == IF n < 0 THEN "-" \o NatStr(-n) ELSE NatStr(n)

\* "%0<w>d": the sign counts in the width, the zeros follow it.
Fmt0D(n, w) ==
  IF n < 0 THEN "-" \o ZeroPad(NatStr(-n), w - 1) ELSE ZeroPad(NatStr(n), w)

(***************************************************************************)
(* One entry of the trace: who made the call, the source line of the call, *)
(* the call and its arguments.                                             *)
(***************************************************************************)
Op(by, line, op, x, y, w, h, color, text) ==
  [by |-> by, line |-> line, op |-> op, x |-> x, y |-> y, w |-> w, h |-> h,
   color |-> color, text |-> text]

Call(by, line, op) == Op(by, line, op, 0, 0, 0, 0, "", "")

\* The calls that put pixels on the display surface.
DrawOps == {"fillRect", "print", "drawString"}

\* The sub-updates of sensors_update.
SensorParts == {"battery", "rtc", "imu"}

(***************************************************************************)
(* Raw button flags of one channel, as latched by M5.update().             *)
(***************************************************************************)
AllFlags ==
  [hold : BOOLEAN, clicked : BOOLEAN, pressed : BOOLEAN,
   released : BOOLEAN, decided : BOOLEAN]

NoFlags ==
  [hold |-> FALSE, clicked |-> FALSE, pressed |-> FALSE,
   released |-> FALSE, decided |-> FALSE]

\* The getClickCount() value the button driver reports with a raised flag.
ClickCounts == {2}

VARIABLES
  pc,                \* position in loop()
  rtc_enabled,       \* M5.Rtc.isEnabled()
  imu_enabled,       \* M5.Imu.isEnabled()
  btn,               \* flags read by the process_button call in progress
  ev,                \* states returned by the process_button calls of this tick
  led,               \* colour last given to M5.Led.setAllColor
  any_button_event,  \* buttons.cpp static
  prev_battery,      \* sensors.cpp static
  prev_xpos,         \* sensors.cpp static
  xpos,              \* update_imu local: extents of this tick's sample
  px0,               \* prev_xpos as update_imu found it
  cell,              \* the text each scalar cell of the display shows
  cell0,             \* cell as this tick found it
  cur,               \* the samples read in this tick
  last,              \* the samples read in the previous tick
  ops,               \* calls made in this tick, in order
  imu_busy,          \* what displayBusy() returned to the last poll of the wait
  polls,             \* busy polls of this tick's wait so far (up to MaxPolls)
  bars,              \* per channel, the columns of its row that show its colour
  tone_pc,           \* position in audio_play_tone
  tone_arg,          \* frequency, duration_ms and wait of the call in progress
  playing,           \* M5.Speaker.isPlaying()
  tone_reqs,         \* M5.Speaker.tone requests of the call in progress
  tone_polls,        \* isPlaying() polls of the call in progress (up to MaxPolls)
  startup_pc,        \* position in audio_play_startup
  file_size,         \* audio_play_startup local: wav_file.size()
  wav_buffer,        \* audio.cpp static: "nullptr", or "allocated" (48000 bytes)
  bytes_read,        \* bytes wav_file.read stored from wav_buffer[0] on
  raw_reqs           \* M5.Speaker.playRaw requests of the call in progress

vars ==
  <<pc, rtc_enabled, imu_enabled, btn, ev, led, any_button_event,
    prev_battery, prev_xpos, xpos, px0, cell, cell0, cur, last, ops,
    imu_busy, polls, bars, tone_pc, tone_arg, playing, tone_reqs, tone_polls,
    startup_pc, file_size, wav_buffer, bytes_read, raw_reqs>>

\* The variables of the tick loop, those of audio_play_tone and those of
\* audio_play_startup.
loopvars ==
  <<pc, rtc_enabled, imu_enabled, btn, ev, led, any_button_event,
    prev_battery, prev_xpos, xpos, px0, cell, cell0, cur, last, ops,
    imu_busy, polls, bars>>
tonevars == <<tone_pc, tone_arg, playing, tone_reqs, tone_polls>>

wavvars == <<startup_pc, file_size, wav_buffer, bytes_read, raw_reqs>>


(***************************************************************************)
(* buttons.cpp                                                             *)
(***************************************************************************)
\* Mutant: wasClicked is tested before wasHold.
ButtonState_ClickedFirst(f) ==
  IF f.clicked THEN 2
  ELSE IF f.hold THEN 1
  ELSE IF f.pressed THEN 3
  ELSE IF f.released THEN 4
  ELSE IF f.decided THEN 5
  ELSE 0

\* process_button, lines 32-37: the state of the first raised flag.
ButtonState(f) ==
  IF f.hold THEN 1
  ELSE IF f.clicked THEN 2
  ELSE IF f.pressed THEN 3
  ELSE IF f.released THEN 4
  ELSE IF f.decided THEN 5
  ELSE 0

\* Mutant: a busy display suppresses the tone and the log line too.
ButtonCalls_BusySkipsAll(state, name, tone_freq, display_row, busy, count) ==
  IF state = 0 THEN <<>>
  ELSE
    LET h == DisplayHeight \div 8
        color == BUTTON_STATE_COLORS[state + 1]
    IN  <<Op(name, 41, "setAllColor", 0, 0, 0, 0, color, ""),
          Op(name, 51, "displayBusy", 0, 0, 0, 0, "",
             IF busy THEN "busy" ELSE "ready")>>
        \o (IF ~busy
            THEN <<Op(name, 44, "tone", tone_freq, 0, BUTTON_TONE_DURATION_MS,
                      0, "", ""),
                   Op(name, 47, "log", 0, 0, 0, 0, "",
                      name \o ":" \o BUTTON_STATE_NAMES[state + 1]
                        \o "  count:" \o FmtD(count)),
                   Op(name, 53, "fillRect", 0, h * display_row, h, h - 1,
                      color, ""),
                   Op(name, 55, "setCursor", 0, h * display_row, 0, 0, "", ""),
                   Op(name, 56, "print", 0, 0, 0, 0, "", FmtD(count))>>
            ELSE <<>>)

\* process_button, lines 39-60: the calls made for a returned state.
\* A tone entry carries the frequency in x and the duration in w; the
\* displayBusy entry carries what the call returned in text.
ButtonCalls(state, name, tone_freq, display_row, busy, count) ==
  IF state = 0 THEN <<>>
  ELSE
    LET h == DisplayHeight \div 8
        color == BUTTON_STATE_COLORS[state + 1]
    IN  <<Op(name, 41, "setAllColor", 0, 0, 0, 0, color, ""),
          Op(name, 44, "tone", tone_freq, 0, BUTTON_TONE_DURATION_MS, 0, "", ""),
          Op(name, 47, "log", 0, 0, 0, 0, "",
             name \o ":" \o BUTTON_STATE_NAMES[state + 1] \o "  count:"
               \o FmtD(count)),
          Op(name, 51, "displayBusy", 0, 0, 0, 0, "",
             IF busy THEN "busy" ELSE "ready")>>
        \o (IF ~busy
            THEN <<Op(name, 53, "fillRect", 0, h * display_row, h, h - 1,
                      color, ""),
                   Op(name, 55, "setCursor", 0, h * display_row, 0, 0, "", ""),
                   Op(name, 56, "print", 0, 0, 0, 0, "", FmtD(count))>>
            ELSE <<>>)

\* Mutant: once lit, the LED keeps its colour.
ButtonLed_KeepFirst(state, old) ==
  IF state # 0 /\ old = LedUnset THEN BUTTON_STATE_COLORS[state + 1] ELSE old

\* Mutant: a call that returns None puts the LED back to its unlit state.
ButtonLed_ResetOnNone(state, old) ==
  IF state # 0 THEN BUTTON_STATE_COLORS[state + 1] ELSE LedUnset

\* Mutant: the colour table is indexed one entry too low.
ButtonLed_EntryBelow(state, old) ==
  IF state # 0 THEN BUTTON_STATE_COLORS[state] ELSE old

\* Mutant: the LED is set before the state is tested.
ButtonLed_Unconditional(state, old) == BUTTON_STATE_COLORS[state + 1]

\* process_button, line 41: the indicator colour after the call.
ButtonLed(state, old) ==
  IF state # 0 THEN BUTTON_STATE_COLORS[state + 1] ELSE old

\* process_button, line 59: any_button_event after the call.
ButtonAny(state, old) == IF state # 0 THEN TRUE ELSE old

\* Mutant: buttons_update does not clear the flag.
AnyAtEntry_Keep(old) == old

\* buttons_update, line 66: any_button_event as the calls find it.
AnyAtEntry(old) == FALSE

\* Channels of this tick that returned a non-zero state so far.
NumActive(e) == Cardinality({i \in 1..Len(e) : e[i] # 0})

\* loop() up to and including the head of buttons_update (lines 66-68):
\* M5.update() latches the button flags, the flag is cleared and the write
\* scope is opened.
loop ==
  /\ pc = "loop"
  /\ pc' = "buttons"
  /\ any_button_event' = AnyAtEntry(any_button_event)
  /\ ev' = <<>>
  /\ ops' = <<Call("buttons_update", 68, "startWrite")>>
  /\ cell0' = cell
  /\ polls' = 0
  /\ UNCHANGED <<rtc_enabled, imu_enabled, btn, led, prev_battery, prev_xpos,
                 xpos, px0, cell, cur, last, imu_busy,
                 bars, tonevars, wavvars>>

\* One of the five process_button calls of buttons_update (lines 71-75);
\* F is the set of flag combinations M5.update() may have latched.
process_button(F) ==
  /\ pc = "buttons"
  /\ Len(ev) < Len(ButtonNames)
  /\ \E f \in F, busy \in BOOLEAN, count \in ClickCounts :
       LET i == Len(ev) + 1
           state == ButtonState(f)
       IN  /\ (f # NoFlags => NumActive(ev) < MaxActive)
           /\ btn' = f
           /\ ev' = Append(ev, state)
           /\ led' = ButtonLed(state, led)
           /\ any_button_event' = ButtonAny(state, any_button_event)
           /\ ops' = ops \o ButtonCalls(state, ButtonNames[i], ButtonTones[i],
                                        ButtonRows[i], busy, count)
  /\ UNCHANGED <<pc, rtc_enabled, imu_enabled, prev_battery, prev_xpos, xpos,
                 px0, cell, cell0, cur, last, imu_busy, polls,
                 bars, tonevars, wavvars>>

\* Mutant: buttons_update returns after its first process_button call.
buttons_update_end_Early ==
  /\ pc = "buttons"
  /\ Len(ev) >= 1
  /\ pc' = "battery"
  /\ btn' = NoFlags
  /\ ops' = Append(ops, Call("buttons_update", 77, "endWrite"))
  /\ UNCHANGED <<rtc_enabled, imu_enabled, ev, led, any_button_event,
                 prev_battery, prev_xpos, xpos, px0, cell, cell0, cur, last,
                 imu_busy, polls,
                 bars, tonevars, wavvars>>

\* buttons_update, line 77, and the return to loop().
buttons_update_end ==
  /\ pc = "buttons"
  /\ Len(ev) = Len(ButtonNames)
  /\ pc' = "battery"
  /\ btn' = NoFlags
  /\ ops' = Append(ops, Call("buttons_update", 77, "endWrite"))
  /\ UNCHANGED <<rtc_enabled, imu_enabled, ev, led, any_button_event,
                 prev_battery, prev_xpos, xpos, px0, cell, cell0, cur, last,
                 imu_busy, polls,
                 bars, tonevars, wavvars>>

\* buttons_any_pressed()
buttons_any_pressed == any_button_event

(***************************************************************************)
(* sensors.cpp: the samples                                                *)
(***************************************************************************)
\* M5.Power.getBatteryLevel(): a percentage, or a negative value when there
\* is no battery gauge.
BatteryLevels == {-2, -1, 63, 77, 100}

\* m5::rtc_datetime_t values M5.Rtc.getDateTime() may deliver.
RtcReading(wd, s) ==
  [year |-> 2026, month |-> 3, date |-> 9, weekDay |-> wd,
   hours |-> 7, minutes |-> 5, seconds |-> s]

\* struct tm values localtime() may deliver.
TmReading(wd, s) ==
  [tm_year |-> 126, tm_mon |-> 2, tm_mday |-> 9, tm_wday |-> wd,
   tm_hour |-> 7, tm_min |-> 5, tm_sec |-> s]

\* What update_rtc may read in one tick: whether getDateTime succeeded, the
\* RTC reading when it did, the system time when it did not.
ClockOutcomes ==
  {[ok |-> TRUE, dt |-> RtcReading(1, s), tm |-> TmReading(1, 0)] :
     s \in {58, 59}}
  \cup
  {[ok |-> FALSE, dt |-> RtcReading(1, 0), tm |-> TmReading(1, 58)]}

\* The raw IMU sample <<ta, tg>>: of the n levels -MaxLevel..MaxLevel,
\* accelerometer axis i (channels 0..2, in hundredths of g) reads level
\* (ta + i) mod n and gyro axis i (channels 3..5, in degrees per second)
\* reads level (tg + i) mod n.
ImuLevels == 2 * MaxLevel + 1

ImuSample(t) ==
  [i \in 0..(IMU_GRAPH_CHANNELS - 1) |->
     IF i < 3
     THEN 40 * (((t[1] + i) % ImuLevels) - MaxLevel)
     ELSE 41 * (((t[2] + i) % ImuLevels) - MaxLevel)]

\* The samples the model draws: the gyro is in step with the accelerometer
\* or one level ahead of it.
ImuIndices ==
  {<<ta, (ta + d) % ImuLevels>> : ta \in 0..(ImuLevels - 1), d \in {0, 1}}

\* Conversion of a float to int: the fraction is dropped (toward zero).
TruncDiv(a, b) == IF a >= 0 THEN a \div b ELSE -((-a) \div b)

\* update_imu, lines 113-116: xpos[i] = val[i] * 50 for the accelerometer
\* (val in g, here in hundredths of g), xpos[i + 3] = val[i + 3] / 2.
ImuExtent(i, raw) == IF i < 3 THEN TruncDiv(raw * 50, 100) ELSE TruncDiv(raw, 2)

ImuExtents(val) == [i \in 0..(IMU_GRAPH_CHANNELS - 1) |-> ImuExtent(i, val[i])]

\* Before the first tick nothing was sampled.
NoSample ==
  [valid |-> FALSE, battery |-> 0, clock |-> [ok |-> FALSE,
   dt |-> RtcReading(1, 0), tm |-> TmReading(1, 0)], imu |-> ImuSample(<<0, 0>>)]

(***************************************************************************)
(* sensors.cpp: update_battery                                             *)
(***************************************************************************)
\* Mutant: the stored value starts at a full battery.
PrevBatteryAtStart_Full == 10 * 10

\* line 7: prev_battery before the first tick.
PrevBatteryAtStart == INT_MAX

\* Mutant: the percentage is printed with "%d".
BatteryText_Unpadded(battery) == IF battery >= 0 THEN FmtD(battery) ELSE "none"

\* lines 23-27: the text of the battery cell.
BatteryText(battery) == IF battery >= 0 THEN Fmt0D(battery, 3) ELSE "none"

\* Mutant: the comparison with the stored value is lost.
BatteryChanged_Always(prev, battery) == TRUE

\* line 17: whether the cell is redrawn.
BatteryChanged(prev, battery) == prev # battery

\* Mutant: the scope of update_battery is left open.
BatteryCalls_NoEndWrite(prev, battery) ==
  IF prev # battery
  THEN <<Call("battery", 20, "startWrite"),
         Op("battery", 21, "setCursor", 0, FontHeight * 3, 0, 0, "", ""),
         Op("battery", 22, "print", 0, 0, 0, 0, "", "Bat:"),
         Op("battery", IF battery >= 0 THEN 24 ELSE 26, "print", 0, 0, 0, 0,
            "", BatteryText(battery))>>
  ELSE <<>>

\* lines 17-29: the calls made for a sample.
BatteryCalls(prev, battery) ==
  IF BatteryChanged(prev, battery)
  THEN <<Call("battery", 20, "startWrite"),
         Op("battery", 21, "setCursor", 0, FontHeight * 3, 0, 0, "", ""),
         Op("battery", 22, "print", 0, 0, 0, 0, "", "Bat:"),
         Op("battery", IF battery >= 0 THEN 24 ELSE 26, "print", 0, 0, 0, 0,
            "", BatteryText(battery)),
         Call("battery", 28, "endWrite")>>
  ELSE <<>>

\* Mutant: the sample is never stored.
BatteryStored_Keep(prev, battery) == prev

\* lines 17-18: prev_battery after the call.
BatteryStored(prev, battery) ==
  IF BatteryChanged(prev, battery) THEN battery ELSE prev

update_battery(B) ==
  /\ pc = "battery"
  /\ pc' = "rtc"
  /\ \E battery \in B :
       /\ cur' = [cur EXCEPT !.battery = battery]
       /\ prev_battery' = BatteryStored(prev_battery, battery)
       /\ ops' = ops \o BatteryCalls(prev_battery, battery)
       /\ cell' = IF BatteryChanged(prev_battery, battery)
                  THEN [cell EXCEPT !.battery = BatteryText(battery)]
                  ELSE cell
  /\ UNCHANGED <<rtc_enabled, imu_enabled, btn, ev, led, any_button_event,
                 prev_xpos, xpos, px0, cell0, last, imu_busy, polls,
                 bars, tonevars, wavvars>>

(***************************************************************************)
(* sensors.cpp: update_rtc                                                 *)
(***************************************************************************)
wd == <<"Sun", "Mon", "Tue", "Wed", "Thr", "Fri", "Sat", "ERR">>

\* Mutant: the weekday is reduced modulo 7, so the table's last entry is
\* never selected.
WeekdayIndex_Mod7(w) == w % 7

\* weekDay & 7 on a two's complement int.
WeekdayIndex(w) == w % 8

\* lines 49-53 and 71-75
DateText(year, month, date, weekDay) ==
  Fmt0D(year, 4) \o "/" \o Fmt0D(month, 2) \o "/" \o Fmt0D(date, 2)
    \o "(" \o wd[WeekdayIndex(weekDay) + 1] \o ")"

\* lines 57-60 and 78-81
TimeText(hours, minutes, seconds) ==
  Fmt0D(hours, 2) \o ":" \o Fmt0D(minutes, 2) \o ":" \o Fmt0D(seconds, 2)

\* The two strings update_rtc formats from what it read (lines 45-85).
ClockDate(c) ==
  IF c.ok
  THEN DateText(c.dt.year, c.dt.month, c.dt.date, c.dt.weekDay)
  ELSE DateText(c.tm.tm_year + 1900, c.tm.tm_mon + 1, c.tm.tm_mday,
                c.tm.tm_wday)

\* Mutant: the time string is formatted from the RTC reading in both
\* branches.
ClockTime_FromRtc(c) == TimeText(c.dt.hours, c.dt.minutes, c.dt.seconds)

ClockTime(c) ==
  IF c.ok
  THEN TimeText(c.dt.hours, c.dt.minutes, c.dt.seconds)
  ELSE TimeText(c.tm.tm_hour, c.tm.tm_min, c.tm.tm_sec)

\* Mutant: the time string is drawn before the date string.
RtcCalls_TimeFirst(c) ==
  <<Call("rtc", IF c.ok THEN 46 ELSE 69, "startWrite"),
    Op("rtc", IF c.ok THEN 61 ELSE 82, "drawString", DisplayWidth \div 2,
       FontHeight, 0, 0, "", ClockTime(c)),
    Op("rtc", IF c.ok THEN 54 ELSE 76, "drawString", DisplayWidth \div 2, 0,
       0, 0, "", ClockDate(c)),
    Call("rtc", IF c.ok THEN 63 ELSE 84, "endWrite")>>

\* Mutant: update_rtc draws without a scope of its own.
RtcCalls_NoScope(c) ==
  <<Op("rtc", IF c.ok THEN 54 ELSE 76, "drawString", DisplayWidth \div 2, 0,
       0, 0, "", ClockDate(c)),
    Op("rtc", IF c.ok THEN 61 ELSE 82, "drawString", DisplayWidth \div 2,
       FontHeight, 0, 0, "", ClockTime(c))>>

\* lines 45-85: both branches make the same calls with their own strings.
RtcCalls(c) ==
  <<Call("rtc", IF c.ok THEN 46 ELSE 69, "startWrite"),
    Op("rtc", IF c.ok THEN 54 ELSE 76, "drawString", DisplayWidth \div 2, 0,
       0, 0, "", ClockDate(c)),
    Op("rtc", IF c.ok THEN 61 ELSE 82, "drawString", DisplayWidth \div 2,
       FontHeight, 0, 0, "", ClockTime(c)),
    Call("rtc", IF c.ok THEN 63 ELSE 84, "endWrite")>>

\* Mutant: the isEnabled() test is gone.
update_rtc_Ungated(R) ==
  /\ pc = "rtc"
  /\ pc' = "imu"
  /\ \E c \in R :
       /\ cur' = [cur EXCEPT !.clock = c]
       /\ ops' = ops \o RtcCalls(c)
       /\ cell' = [cell EXCEPT !.date = ClockDate(c), !.time = ClockTime(c)]
  /\ UNCHANGED <<rtc_enabled, imu_enabled, btn, ev, led, any_button_event,
                 prev_battery, prev_xpos, xpos, px0, cell0, last, imu_busy,
                 polls,
                 bars, tonevars, wavvars>>

update_rtc(R) ==
  /\ pc = "rtc"
  /\ pc' = "imu"
  /\ IF ~rtc_enabled
     THEN UNCHANGED <<cur, cell, ops,
                 bars, tonevars, wavvars>>
     ELSE \E c \in R :
            /\ cur' = [cur EXCEPT !.clock = c]
            /\ ops' = ops \o RtcCalls(c)
            /\ cell' = [cell EXCEPT !.date = ClockDate(c),
                                    !.time = ClockTime(c)]
  /\ UNCHANGED <<rtc_enabled, imu_enabled, btn, ev, led, any_button_event,
                 prev_battery, prev_xpos, xpos, px0, cell0, last, imu_busy, polls,
                 bars, tonevars, wavvars>>

(***************************************************************************)
(* sensors.cpp: update_imu                                                 *)
(***************************************************************************)
\* lines 107-110
ImuColor == [i \in 0..(IMU_GRAPH_CHANNELS - 1) |->
               <<"TFT_RED", "TFT_GREEN", "TFT_BLUE">>[(i % 3) + 1]]

\* line 95: h, line 96: ox
BarHeight == DisplayHeight \div 8
BarOrigin == (DisplayWidth + BarHeight) \div 2

\* Mutant: an extent of 0 counts as negative.
ZeroCrossing_ZeroNegative(x, p) == (x <= 0) # (p <= 0)

\* line 136: the sign of the extent changes (0 counts as not negative).
ZeroCrossing(x, p) == (x < 0) # (p < 0)

\* Mutant: px is left as it was stored when the sign changes.
AdjustedPrev_Keep(x, p) == p

\* lines 133-142: px as the delta fill sees it.
AdjustedPrev(x, p) == IF ZeroCrossing(x, p) THEN 0 ELSE p

\* Mutant: the direction of change alone picks the colour.
BarGrows_Unsigned(x, px) == x > px

\* line 146: the bar grows away from zero.
BarGrows(x, px) == (x > px) # (x < 0)

\* lines 146-150: the colour set for the delta fill.
BarColor(i, x, px) == IF BarGrows(x, px) THEN ImuColor[i] ELSE BaseColor

\* Mutant: the erase is as wide as the new extent.
EraseCalls_NewExtent(i, x, p) ==
  IF ZeroCrossing(x, p) /\ p # 0
  THEN <<Op("imu", 138, "fillRect", BarOrigin, BarHeight * (i + 2), x,
            BarHeight, BaseColor, "")>>
  ELSE <<>>

\* lines 137-140: the erase of the previous bar on a zero crossing.
EraseCalls(i, x, p) ==
  IF ZeroCrossing(x, p) /\ p # 0
  THEN <<Op("imu", 138, "fillRect", BarOrigin, BarHeight * (i + 2), p,
            BarHeight, BaseColor, "")>>
  ELSE <<>>

\* Mutant: the width of the delta fill has the wrong sign.
DeltaCalls_Flipped(i, x, px) ==
  IF x # px
  THEN <<Op("imu", 151, "fillRect", x + BarOrigin, BarHeight * (i + 2),
            x - px, BarHeight, BarColor(i, x, px), "")>>
  ELSE <<>>

\* lines 145-152: the delta fill.
DeltaCalls(i, x, px) ==
  IF x # px
  THEN <<Op("imu", 151, "fillRect", x + BarOrigin, BarHeight * (i + 2),
            px - x, BarHeight, BarColor(i, x, px), "")>>
  ELSE <<>>

\* Mutant: the previous bar is erased on every change, sign change or not.
ChannelCalls_EraseAlways(i, x, p) ==
  IF x = p THEN <<>>
  ELSE (IF p # 0
        THEN <<Op("imu", 138, "fillRect", BarOrigin, BarHeight * (i + 2), p,
                  BarHeight, BaseColor, "")>>
        ELSE <<>>)
       \o DeltaCalls(i, x, AdjustedPrev(x, p))

\* lines 129-152: the fills of channel i, new extent x, stored extent p.
ChannelCalls(i, x, p) ==
  IF x = p THEN <<>>
  ELSE EraseCalls(i, x, p) \o DeltaCalls(i, x, AdjustedPrev(x, p))

\* Mutant: the new extent is never stored.
ChannelStored_Keep(x, p) == p

\* Mutant: the zero-crossing-adjusted px is what gets stored.
ChannelStored_Adjusted(x, p) ==
  IF x = p THEN p ELSE IF ZeroCrossing(x, p) THEN 0 ELSE x

\* lines 129-131 and 154: prev_xpos[i] after the loop body.
ChannelStored(x, p) == IF x = p THEN p ELSE x

\* lines 128-155: the loop over the channels i..5.
RECURSIVE ImuCallsFrom(_, _, _)
ImuCallsFrom(i, xp, prev) ==
  IF i >= IMU_GRAPH_CHANNELS THEN <<>>
  ELSE ChannelCalls(i, xp[i], prev[i]) \o ImuCallsFrom(i + 1, xp, prev)

\* The columns M5.Display.fillRect(x, y, w, h) covers: a negative width
\* extends to the left of x.
FillColumns(o) == IF o.w >= 0 THEN o.x..(o.x + o.w - 1) ELSE (o.x + o.w)..(o.x - 1)

\* line 120: the columns of the display inside setClipRect(h, h, width,
\* height); the bar rows all lie below its top edge.
ClipColumns == BarHeight..(DisplayWidth - 1)

\* What one fill of update_imu does to the bar rows: inside the clip region
\* the columns it covers take its colour, which is the colour of the row's
\* channel or is not.
PaintFill(b, o) ==
  LET i == (o.y \div BarHeight) - 2
      cols == FillColumns(o) \cap ClipColumns
  IN  [b EXCEPT ![i] = IF o.color = ImuColor[i] THEN @ \cup cols ELSE @ \ cols]

\* The bar rows after the calls c, made in order.
RECURSIVE Paint(_, _)
Paint(b, c) ==
  IF c = <<>> THEN b
  ELSE Paint(IF c[1].op = "fillRect" THEN PaintFill(b, c[1]) ELSE b, Tail(c))

\* Mutant: with no bar to change, the busy wait is skipped.
update_imu_begin_SkipIdle(S) ==
  /\ pc = "imu"
  /\ IF ~imu_enabled
     THEN /\ pc' = "display"
          /\ UNCHANGED <<cur, xpos, px0, ops>>
     ELSE /\ \E t \in S :
               /\ cur' = [cur EXCEPT !.imu = ImuSample(t)]
               /\ xpos' = ImuExtents(ImuSample(t))
          /\ pc' = IF xpos' = prev_xpos THEN "imu_draw" ELSE "imu_wait"
          /\ px0' = prev_xpos
          /\ ops' = ops \o
               <<Call("imu", 119, "startWrite"),
                 Op("imu", 120, "setClipRect", BarHeight, BarHeight,
                    DisplayWidth, DisplayHeight, "", "")>>
  /\ UNCHANGED <<rtc_enabled, imu_enabled, btn, ev, led, any_button_event,
                 prev_battery, prev_xpos, cell, cell0, last, imu_busy, polls,
                 bars, tonevars, wavvars>>

\* lines 89-120: the early return, or the sample, the scaling, startWrite
\* and setClipRect. S is the set of sample numbers the IMU may deliver.
update_imu_begin(S) ==
  /\ pc = "imu"
  /\ IF ~imu_enabled
     THEN /\ pc' = "display"
          /\ UNCHANGED <<cur, xpos, px0, ops,
                 bars, tonevars, wavvars>>
     ELSE /\ pc' = "imu_wait"
          /\ \E t \in S :
               /\ cur' = [cur EXCEPT !.imu = ImuSample(t)]
               /\ xpos' = ImuExtents(ImuSample(t))
          /\ px0' = prev_xpos
          /\ ops' = ops \o
               <<Call("imu", 119, "startWrite"),
                 Op("imu", 120, "setClipRect", BarHeight, BarHeight,
                    DisplayWidth, DisplayHeight, "", "")>>
  /\ UNCHANGED <<rtc_enabled, imu_enabled, btn, ev, led, any_button_event,
                 prev_battery, prev_xpos, cell, cell0, last, imu_busy, polls,
                 bars, tonevars, wavvars>>

\* Mutant: after MaxPolls busy polls the loop is left and the tick goes on
\* to the commit without the fills.
update_imu_poll_GiveUp(b) ==
  /\ pc = "imu_wait"
  /\ imu_busy' = b
  /\ pc' = IF ~b THEN "imu_draw"
           ELSE IF polls < MaxPolls THEN "imu_delay" ELSE "display"
  /\ polls' = IF b /\ polls < MaxPolls THEN polls + 1 ELSE polls
  /\ UNCHANGED <<rtc_enabled, imu_enabled, btn, ev, led, any_button_event,
                 prev_battery, prev_xpos, xpos, px0, cell, cell0, cur, last,
                 ops,
                 bars, tonevars, wavvars>>

\* Mutant: the wait times out after MaxPolls busy polls.
update_imu_poll_Timeout(b) ==
  /\ pc = "imu_wait"
  /\ imu_busy' = b
  /\ pc' = IF b /\ polls < MaxPolls THEN "imu_delay" ELSE "imu_draw"
  /\ polls' = IF b /\ polls < MaxPolls THEN polls + 1 ELSE polls
  /\ UNCHANGED <<rtc_enabled, imu_enabled, btn, ev, led, any_button_event,
                 prev_battery, prev_xpos, xpos, px0, cell, cell0, cur, last,
                 ops,
                 bars, tonevars, wavvars>>

\* Mutant: the loop polls on whatever the flag says.
update_imu_poll_Stuck(b) ==
  /\ pc = "imu_wait"
  /\ imu_busy' = b
  /\ pc' = "imu_delay"
  /\ polls' = IF b /\ polls < MaxPolls THEN polls + 1 ELSE polls
  /\ UNCHANGED <<rtc_enabled, imu_enabled, btn, ev, led, any_button_event,
                 prev_battery, prev_xpos, xpos, px0, cell, cell0, cur, last,
                 ops,
                 bars, tonevars, wavvars>>

\* Mutant: the flag is polled once and the fills follow whatever it said.
update_imu_poll_NoWait(b) ==
  /\ pc = "imu_wait"
  /\ imu_busy' = b
  /\ pc' = "imu_draw"
  /\ polls' = IF b /\ polls < MaxPolls THEN polls + 1 ELSE polls
  /\ UNCHANGED <<rtc_enabled, imu_enabled, btn, ev, led, any_button_event,
                 prev_battery, prev_xpos, xpos, px0, cell, cell0, cur, last,
                 ops,
                 bars, tonevars, wavvars>>

\* line 123: one poll of displayBusy() that returns b. Busy: on to
\* M5.delay(1), however many polls there have been; not busy: the loop is
\* left.
update_imu_poll(b) ==
  /\ pc = "imu_wait"
  /\ imu_busy' = b
  /\ pc' = IF b THEN "imu_delay" ELSE "imu_draw"
  /\ polls' = IF b /\ polls < MaxPolls THEN polls + 1 ELSE polls
  /\ UNCHANGED <<rtc_enabled, imu_enabled, btn, ev, led, any_button_event,
                 prev_battery, prev_xpos, xpos, px0, cell, cell0, cur, last,
                 ops,
                 bars, tonevars, wavvars>>

\* line 123: the display decides what each poll returns.
update_imu_wait == \E b \in BOOLEAN : update_imu_poll(b)

\* line 124: M5.delay(1), then the loop polls again.
update_imu_delay ==
  /\ pc = "imu_delay"
  /\ pc' = "imu_wait"
  /\ UNCHANGED <<rtc_enabled, imu_enabled, btn, ev, led, any_button_event,
                 prev_battery, prev_xpos, xpos, px0, cell, cell0, cur, last,
                 ops, imu_busy, polls,
                 bars, tonevars, wavvars>>

\* Mutant: the clip region is left set when update_imu returns.
update_imu_draw_NoClear ==
  /\ pc = "imu_draw"
  /\ pc' = "display"
  /\ ops' = ops \o ImuCallsFrom(0, xpos, prev_xpos)
                \o <<Call("imu", 158, "endWrite")>>
  /\ prev_xpos' = [i \in 0..(IMU_GRAPH_CHANNELS - 1) |->
                     ChannelStored(xpos[i], prev_xpos[i])]
  /\ bars' = Paint(bars, ImuCallsFrom(0, xpos, prev_xpos))
  /\ UNCHANGED <<rtc_enabled, imu_enabled, btn, ev, led, any_button_event,
                 prev_battery, xpos, px0, cell, cell0, cur, last, imu_busy,
                 polls, tonevars, wavvars>>

\* lines 127-158: the channel loop, clearClipRect, endWrite.
update_imu_draw ==
  /\ pc = "imu_draw"
  /\ pc' = "display"
  /\ ops' = ops \o ImuCallsFrom(0, xpos, prev_xpos)
                \o <<Call("imu", 157, "clearClipRect"),
                    Call("imu", 158, "endWrite")>>
  /\ prev_xpos' = [i \in 0..(IMU_GRAPH_CHANNELS - 1) |->
                     ChannelStored(xpos[i], prev_xpos[i])]
  /\ bars' = Paint(bars, ImuCallsFrom(0, xpos, prev_xpos))
  /\ UNCHANGED <<rtc_enabled, imu_enabled, btn, ev, led, any_button_event,
                 prev_battery, xpos, px0, cell, cell0, cur, last, imu_busy,
                 polls, tonevars, wavvars>>

\* Mutant: the commit is issued only when the tick drew something.
CommitCalls_IfDrawn(o) ==
  IF \E k \in 1..Len(o) : o[k].op \in DrawOps
  THEN <<Call("sensors_update", 166, "display")>>
  ELSE <<>>

\* sensors_update, line 166: the commit, whatever the calls o made so far.
CommitCalls(o) == <<Call("sensors_update", 166, "display")>>

\* sensors_update, line 166, and the return to loop(): the tick is over.
sensors_update_display ==
  /\ pc = "display"
  /\ pc' = "loop"
  /\ ops' = ops \o CommitCalls(ops)
  /\ last' = [cur EXCEPT !.valid = TRUE]
  /\ UNCHANGED <<rtc_enabled, imu_enabled, btn, ev, led, any_button_event,
                 prev_battery, prev_xpos, xpos, px0, cell, cell0, cur,
                 imu_busy, polls,
                 bars, tonevars, wavvars>>

(***************************************************************************)
(* The specifications                                                      *)
(***************************************************************************)
(* audio.cpp: audio_play_tone                                              *)
(***************************************************************************)
\* Arguments audio_play_tone is called with: the test tones of audio_init
\* (lines 27-28) and the third of types.h, two durations, either wait.
ToneFrequencies ==
  {AUDIO_TEST_TONE_LOW, AUDIO_TEST_TONE_MED, AUDIO_TEST_TONE_HIGH}
ToneDurations == {BUTTON_TONE_DURATION_MS, 10 * BUTTON_TONE_DURATION_MS}
ToneArgs ==
  [frequency : ToneFrequencies, duration_ms : ToneDurations, wait : BOOLEAN]

\* No call of audio_play_tone has been made yet.
NoTone == [frequency |-> 0, duration_ms |-> 0, wait |-> FALSE]

\* A caller enters audio_play_tone (line 40).
audio_play_tone_call ==
  /\ tone_pc \in {"idle", "returned"}
  /\ \E a \in ToneArgs : tone_arg' = a
  /\ tone_pc' = "tone"
  /\ tone_reqs' = <<>>
  /\ tone_polls' = 0
  /\ UNCHANGED <<playing, loopvars, wavvars>>

\* Lines 41-42: the request to the speaker, then the test of wait. Whether
\* the speaker reports playing after the request is up to the speaker (a
\* disabled speaker plays nothing).
audio_play_tone_request ==
  /\ tone_pc = "tone"
  /\ tone_reqs' = Append(tone_reqs, <<tone_arg.frequency, tone_arg.duration_ms>>)
  /\ playing' \in BOOLEAN
  /\ tone_pc' = IF tone_arg.wait THEN "poll" ELSE "returned"
  /\ UNCHANGED <<tone_arg, tone_polls, loopvars, wavvars>>

\* Mutant: the loop polls once and returns whatever the speaker reports.
audio_play_tone_poll_Once ==
  /\ tone_pc = "poll"
  /\ tone_polls' = IF tone_polls < MaxPolls THEN tone_polls + 1 ELSE tone_polls
  /\ tone_pc' = "returned"
  /\ UNCHANGED <<tone_arg, playing, tone_reqs, loopvars, wavvars>>

\* Line 43: one evaluation of while (M5.Speaker.isPlaying()).
audio_play_tone_poll ==
  /\ tone_pc = "poll"
  /\ tone_polls' = IF tone_polls < MaxPolls THEN tone_polls + 1 ELSE tone_polls
  /\ tone_pc' = IF playing THEN "delay" ELSE "returned"
  /\ UNCHANGED <<tone_arg, playing, tone_reqs, loopvars, wavvars>>

\* Line 44: M5.delay(1), then back to the loop condition.
audio_play_tone_delay ==
  /\ tone_pc = "delay"
  /\ tone_pc' = "poll"
  /\ UNCHANGED <<tone_arg, playing, tone_reqs, tone_polls, loopvars, wavvars>>

\* The speaker task comes to the end of what it plays.
speaker_stop ==
  /\ playing
  /\ playing' = FALSE
  /\ UNCHANGED <<tone_pc, tone_arg, tone_reqs, tone_polls, loopvars, wavvars>>

(***************************************************************************)
(* audio.cpp: audio_play_startup                                           *)
(***************************************************************************)
\* Sizes of /audio/startup.wav: below, at and above the 44 bytes of the
\* header, and below, at and above the 48000 bytes of the buffer.
FileSizes == {0, 1, 43, 44, 45, 24000, 47999, 48000, 48001, 65536, 96000}

\* LittleFS.open found no file.
NoFile == -1

\* wav_file.read(buf, size) stores and returns at most size bytes.
ReadResults(size) == {n \in FileSizes : n <= size}

\* A 32-bit size_t holding the two's complement of n, as two 16-bit halves.
SizeT(n) == [hi |-> (n \div 65536) % 65536, lo |-> n % 65536]

\* Lines 50-53: the call, and the return when there is no speaker.
audio_play_startup_call ==
  /\ startup_pc \in {"idle", "returned"}
  /\ \E enabled \in BOOLEAN :
       startup_pc' = IF enabled THEN "open" ELSE "returned"
  /\ file_size' = 0
  /\ bytes_read' = 0
  /\ raw_reqs' = <<>>
  /\ UNCHANGED <<wav_buffer, loopvars, tonevars>>

\* Lines 56-62: the file is opened and its size taken.
audio_play_startup_open ==
  /\ startup_pc = "open"
  /\ \E f \in FileSizes \cup {NoFile} :
       IF f = NoFile
       THEN /\ startup_pc' = "returned"
            /\ UNCHANGED file_size
       ELSE /\ startup_pc' = "alloc"
            /\ file_size' = f
  /\ UNCHANGED <<wav_buffer, bytes_read, raw_reqs, loopvars, tonevars>>

\* Lines 66-73: the buffer of WAV_BUFFER_SIZE bytes is allocated once and
\* kept; malloc may fail.
audio_play_startup_alloc ==
  /\ startup_pc = "alloc"
  /\ IF wav_buffer # "nullptr"
     THEN /\ startup_pc' = "read"
          /\ UNCHANGED wav_buffer
     ELSE \E ok \in BOOLEAN :
            /\ wav_buffer' = IF ok THEN "allocated" ELSE "nullptr"
            /\ startup_pc' = IF ok THEN "read" ELSE "returned"
  /\ UNCHANGED <<file_size, bytes_read, raw_reqs, loopvars, tonevars>>

\* Lines 76-82: file_size bytes are requested into wav_buffer, whatever its
\* capacity, and a short read returns. Storing beyond the allocation is
\* undefined: the call may go on as if nothing happened, or crash.
audio_play_startup_read ==
  /\ startup_pc = "read"
  /\ \E n \in ReadResults(file_size) :
       /\ bytes_read' = n
       /\ startup_pc' \in
            {IF n # file_size THEN "returned" ELSE "play"}
              \cup (IF n > WAV_BUFFER_SIZE THEN {"crashed"} ELSE {})
  /\ UNCHANGED <<file_size, wav_buffer, raw_reqs, loopvars, tonevars>>

\* Lines 85-89: the bytes after the header are handed to the speaker.
audio_play_startup_play ==
  /\ startup_pc = "play"
  /\ raw_reqs' = Append(raw_reqs,
                        [offset |-> WavHeaderSize,
                         pcm_size |-> SizeT(file_size - WavHeaderSize),
                         rate |-> AUDIO_WAV_SAMPLE_RATE])
  /\ startup_pc' = "returned"
  /\ UNCHANGED <<file_size, wav_buffer, bytes_read, loopvars, tonevars>>

(***************************************************************************)
\* The state after setup(): the statics of buttons.cpp (lines 6-7) and of
\* sensors.cpp (lines 7-8); which peripherals exist is fixed from then on.
Init ==
  /\ pc = "loop"
  /\ rtc_enabled \in BOOLEAN
  /\ imu_enabled \in BOOLEAN
  /\ btn = NoFlags
  /\ ev = <<>>
  /\ led = LedUnset
  /\ any_button_event = FALSE
  /\ prev_battery = PrevBatteryAtStart
  /\ prev_xpos = [i \in 0..(IMU_GRAPH_CHANNELS - 1) |-> 0]
  /\ xpos = [i \in 0..(IMU_GRAPH_CHANNELS - 1) |-> 0]
  /\ px0 = [i \in 0..(IMU_GRAPH_CHANNELS - 1) |-> 0]
  /\ cell = [battery |-> "", date |-> "", time |-> ""]
  /\ cell0 = [battery |-> "", date |-> "", time |-> ""]
  /\ cur = NoSample
  /\ last = NoSample
  /\ ops = <<>>
  /\ imu_busy = FALSE
  /\ polls = 0
  /\ bars = [i \in 0..(IMU_GRAPH_CHANNELS - 1) |-> {}]
  /\ tone_pc = "idle"
  /\ tone_arg = NoTone
  /\ playing = FALSE
  /\ tone_reqs = <<>>
  /\ tone_polls = 0
  /\ startup_pc = "idle"
  /\ file_size = 0
  /\ wav_buffer = "nullptr"
  /\ bytes_read = 0
  /\ raw_reqs = <<>>

\* One step of loop() with the inputs drawn from F (button flags), B (battery
\* levels), R (clock outcomes) and S (IMU sample numbers).
Tick(F, B, R, S) ==
  \/ loop
  \/ process_button(F)
  \/ buttons_update_end
  \/ update_battery(B)
  \/ update_rtc(R)
  \/ update_imu_begin(S)
  \/ update_imu_wait
  \/ update_imu_delay
  \/ update_imu_draw
  \/ sensors_update_display

\* The sensor renderer with every input varying, the buttons untouched.
Next == Tick({NoFlags}, BatteryLevels, ClockOutcomes, ImuIndices)

Spec == Init /\ [][Next]_vars

\* The IMU with every sample varying, the buttons untouched, the battery
\* and the clock at rest.
NextBars ==
  Tick({NoFlags}, {77},
       {[ok |-> TRUE, dt |-> RtcReading(1, 58), tm |-> TmReading(1, 0)]},
       ImuIndices)

SpecBars == Init /\ [][NextBars]_vars

\* Weekday values the clock may deliver: int8_t weekDay of the RTC and
\* tm_wday of localtime(), in range and out of range, the ends of the
\* int8_t range included.
WeekdayValues == {-128, -9, -8, -1} \cup (0..8) \cup {15, 127}

\* The RTC read with every weekday, or the system time with every weekday.
WeekdayOutcomes ==
  {[ok |-> TRUE, dt |-> RtcReading(w, 58), tm |-> TmReading(1, 0)] :
     w \in WeekdayValues}
  \cup
  {[ok |-> FALSE, dt |-> RtcReading(1, 0), tm |-> TmReading(w, 58)] :
     w \in WeekdayValues}

\* The clock with every weekday varying, everything else at rest.
NextWeekday == Tick({NoFlags}, {77}, WeekdayOutcomes, {<<0, 0>>})

SpecWeekday == Init /\ [][NextWeekday]_vars

\* The battery and the clock with every input varying, the buttons
\* untouched and the IMU at rest.
NextScalars == Tick({NoFlags}, BatteryLevels, ClockOutcomes, {<<0, 0>>})

SpecScalars == Init /\ [][NextScalars]_vars

\* The button classifier with every flag combination, the sensors at rest.
InitButtons == Init /\ rtc_enabled /\ imu_enabled

NextButtons ==
  Tick(AllFlags, {77},
       {[ok |-> TRUE, dt |-> RtcReading(1, 58), tm |-> TmReading(1, 0)]},
       {<<MaxLevel, MaxLevel>>})

SpecButtons == InitButtons /\ [][NextButtons]_vars

\* The whole tick, classifier and renderer together, on a few inputs: a
\* channel is quiet or clicked, the battery and the clock, where present,
\* deliver one value and the IMU one of two.
ClickedOnly == [NoFlags EXCEPT !.clicked = TRUE]

NextLoop ==
  Tick({NoFlags, ClickedOnly}, {77},
       {[ok |-> TRUE, dt |-> RtcReading(1, 58), tm |-> TmReading(1, 0)]},
       {<<0, 0>>, <<MaxLevel, MaxLevel>>})

SpecLoop == Init /\ [][NextLoop]_vars

\* loop() is called again and again and each call runs on: the step the
\* program is at is taken. What a poll of displayBusy() returns is up to the
\* display.
ProgramFair == WF_vars(NextLoop)

\* The display does not stay busy forever while it is polled: polled again
\* and again, it is eventually found not busy.
DisplayFair == SF_vars(update_imu_poll(FALSE))

\* The tick loop with a display that may stay busy forever.
SpecStall == SpecLoop /\ ProgramFair

\* The tick loop with a display that always becomes ready.
SpecLive == SpecLoop /\ ProgramFair /\ DisplayFair

\* Calls of audio_play_tone, one after the other, with the speaker task
\* running beside them.
InitTone == Init /\ rtc_enabled /\ imu_enabled

ToneStep ==
  \/ audio_play_tone_call
  \/ audio_play_tone_request
  \/ audio_play_tone_poll
  \/ audio_play_tone_delay

NextTone == ToneStep \/ speaker_stop

\* The program takes its next step; the speaker does not play forever.
ToneFair == WF_vars(ToneStep)
SpeakerFair == WF_vars(speaker_stop)

SpecTone == InitTone /\ [][NextTone]_vars /\ ToneFair /\ SpeakerFair

\* audio_play_startup on its own, called any number of times.
InitStartup == Init /\ rtc_enabled /\ imu_enabled

NextStartup ==
  \/ audio_play_startup_call
  \/ audio_play_startup_open
  \/ audio_play_startup_alloc
  \/ audio_play_startup_read
  \/ audio_play_startup_play

SpecStartup == InitStartup /\ [][NextStartup]_vars

(***************************************************************************)
(* Reading the trace                                                       *)
(***************************************************************************)
Min(a, b) == IF a <= b THEN a ELSE b
Max(a, b) == IF a >= b THEN a ELSE b
Abs(a) == IF a < 0 THEN -a ELSE a

\* The columns a..b-1 or b..a-1 between two positions.
Between(a, b) == Min(a, b)..(Max(a, b) - 1)

Channels == 0..(IMU_GRAPH_CHANNELS - 1)

\* The fills update_imu issued for channel i in this tick, in order.
ImuFills(i) ==
  SelectSeq(ops, LAMBDA o : o.by = "imu" /\ o.op = "fillRect"
                            /\ o.y = BarHeight * (i + 2))

\* Those of them issued by the delta fill of line 151.
DeltaFills(i) == SelectSeq(ImuFills(i), LAMBDA o : o.line = 151)

\* update_imu ran to its end in this tick.
ImuRan == imu_enabled /\ (pc = "display" \/ (pc = "loop" /\ ops # <<>>))

\* The sign changed between the stored and the new extent of channel i.
Crossed(i) == (px0[i] < 0) # (xpos[i] < 0)

(***************************************************************************)
(* C1: process_button returns the state of the highest-priority raised     *)
(* flag in the order Hold(1) > Clicked(2) > Pressed(3) > Released(4) >     *)
(* DecideClickCount(5), None(0) when no flag is raised; a raised hold flag *)
(* always gives Hold.                                                      *)
(***************************************************************************)
FlagList(f) == <<f.hold, f.clicked, f.pressed, f.released, f.decided>>

HighestPriority(f) ==
  LET raised == {k \in 1..5 : FlagList(f)[k]}
  IN  IF raised = {} THEN 0 ELSE CHOOSE k \in raised : \A j \in raised : k <= j

C1_Priority ==
  (pc = "buttons" /\ Len(ev) > 0) =>
    /\ ev[Len(ev)] = HighestPriority(btn)
    /\ (btn.hold => ev[Len(ev)] = 1)

\* BtnEXT with all five flags raised returns Hold, after another channel
\* had an event in the same tick.
C1_Witness ==
  /\ pc = "buttons"
  /\ Len(ev) = 5
  /\ \A k \in 1..5 : FlagList(btn)[k]
  /\ ev[5] = 1
  /\ \E j \in 1..4 : ev[j] = 5

(***************************************************************************)
(* C2: a channel whose stored and new extent are both non-zero and of      *)
(* opposite sign gets exactly two fills: the background over the whole     *)
(* previous bar, then the channel colour from the origin to the new        *)
(* extent; the stored extent is then the new one.                          *)
(***************************************************************************)
C2_ZeroCrossing ==
  ImuRan =>
    \A i \in Channels :
      (px0[i] # 0 /\ xpos[i] # 0 /\ Crossed(i)) =>
        LET fs == ImuFills(i)
        IN  /\ Len(fs) = 2
            /\ fs[1].color = BaseColor
            /\ FillColumns(fs[1]) = Between(BarOrigin, BarOrigin + px0[i])
            /\ fs[2].color = ImuColor[i]
            /\ FillColumns(fs[2]) = Between(BarOrigin, BarOrigin + xpos[i])
            /\ prev_xpos[i] = xpos[i]

\* +40 then -20 on the accelerometer X bar.
C2_Witness ==
  /\ ImuRan
  /\ px0[0] = 40
  /\ xpos[0] = -20
  /\ Len(ImuFills(0)) = 2
  /\ prev_xpos[0] = -20

(***************************************************************************)
(* C3: after update_imu, prev_xpos[i] is the extent of this tick's sample  *)
(* for each of the six channels, whichever path the channel took.          *)
(***************************************************************************)
C3_StoredIsTarget ==
  ImuRan => \A i \in Channels : prev_xpos[i] = xpos[i]

\* One tick with a skipped channel, a same-sign change and a zero crossing.
C3_Witness ==
  /\ ImuRan
  /\ \E i \in Channels : px0[i] = xpos[i] /\ xpos[i] # 0
  /\ \E i \in Channels : px0[i] # xpos[i] /\ ~Crossed(i)
  /\ \E i \in Channels : px0[i] > 0 /\ xpos[i] < 0 /\ prev_xpos[i] = xpos[i]

(***************************************************************************)
(* C4: the delta fill of a channel update covers exactly the columns       *)
(* between the (zero-crossing-adjusted) previous extent px and the new     *)
(* extent x, |px - x| of them, and nothing when x = px; a same-sign change *)
(* writes exactly the |new - prev| columns between the two extents.        *)
(***************************************************************************)
C4_DeltaSpan ==
  ImuRan =>
    \A i \in Channels :
      xpos[i] # px0[i] =>
        LET d == DeltaFills(i)
            fs == ImuFills(i)
            px == IF Crossed(i) THEN 0 ELSE px0[i]
            cols == UNION {FillColumns(d[k]) : k \in 1..Len(d)}
        IN  /\ Len(d) <= 1
            /\ d # <<>> => fs[Len(fs)] = d[1]
            /\ cols = Between(BarOrigin + px, BarOrigin + xpos[i])
            /\ Cardinality(cols) = Abs(px - xpos[i])
            /\ ~Crossed(i) =>
                 /\ fs = d
                 /\ Cardinality(cols) = Abs(xpos[i] - px0[i])

\* 40 -> 20 writes the columns 20..39 right of the origin.
C4_Witness ==
  /\ ImuRan
  /\ px0[0] = 40
  /\ xpos[0] = 20
  /\ Len(ImuFills(0)) = 1
  /\ FillColumns(ImuFills(0)[1]) = (BarOrigin + 20)..(BarOrigin + 39)

(***************************************************************************)
(* C5: the delta fill is drawn in the channel's colour exactly when the    *)
(* bar grows away from zero and in the background colour exactly when it   *)
(* shrinks toward zero, on either side of zero; after a zero crossing it   *)
(* is in the channel's colour.                                             *)
(***************************************************************************)
C5_DrawColor ==
  ImuRan =>
    \A i \in Channels :
      LET d == DeltaFills(i)
          px == IF Crossed(i) THEN 0 ELSE px0[i]
      IN  \A k \in 1..Len(d) :
            /\ d[k].color = ImuColor[i] <=> Abs(xpos[i]) > Abs(px)
            /\ d[k].color = BaseColor <=> Abs(xpos[i]) < Abs(px)
            /\ Crossed(i) => d[k].color = ImuColor[i]

\* A negative bar growing away from zero, drawn in green.
C5_Witness ==
  /\ ImuRan
  /\ px0[1] = -20
  /\ xpos[1] = -40
  /\ Len(DeltaFills(1)) = 1
  /\ DeltaFills(1)[1].color = "TFT_GREEN"

(***************************************************************************)
(* Reading the trace: the draws of one sub-update in this tick             *)
(***************************************************************************)
Draws(part) == SelectSeq(ops, LAMBDA o : o.by = part /\ o.op \in DrawOps)

SensorDraws == SelectSeq(ops, LAMBDA o : o.by \in SensorParts /\ o.op \in DrawOps)

\* The value text of the battery cell was drawn (lines 24, 26).
BatteryDrawn == \E k \in 1..Len(ops) : ops[k].by = "battery" /\ ops[k].line \in {24, 26}

\* The date string was drawn (lines 54, 76), the time string (lines 61, 82).
DateDrawn == \E k \in 1..Len(ops) : ops[k].by = "rtc" /\ ops[k].line \in {54, 76}
TimeDrawn == \E k \in 1..Len(ops) : ops[k].by = "rtc" /\ ops[k].line \in {61, 82}

\* The three sub-updates have run in this tick; the commit has not.
SensorsDrawn == pc = "display"

\* This tick sampled what the previous tick sampled.
SameSample ==
  /\ last.valid
  /\ cur.battery = last.battery
  /\ cur.clock = last.clock
  /\ cur.imu = last.imu

(***************************************************************************)
(* C6, as claimed: a tick that samples the same battery level, clock       *)
(* reading and IMU values as the tick before it issues no draw call in     *)
(* sensors_update.                                                         *)
(***************************************************************************)
C6_Original == (SensorsDrawn /\ SameSample) => SensorDraws = <<>>

(***************************************************************************)
(* C6, amended: such a tick issues no battery text draw and no IMU fill;   *)
(* the clock sub-update still draws its two strings when the clock is      *)
(* enabled, and nothing when it is not.                                    *)
(***************************************************************************)
C6_Amended ==
  (SensorsDrawn /\ SameSample) =>
    /\ Draws("battery") = <<>>
    /\ Draws("imu") = <<>>
    /\ Len(Draws("rtc")) = IF rtc_enabled THEN 2 ELSE 0

\* A repeated sample with bars away from zero: only the clock is redrawn.
C6_Witness ==
  /\ SensorsDrawn
  /\ SameSample
  /\ rtc_enabled
  /\ imu_enabled
  /\ cur.battery = 77
  /\ xpos[0] # 0
  /\ xpos[3] # 0
  /\ Len(SensorDraws) = 2

(***************************************************************************)
(* C7, as claimed: in every tick a scalar cell (battery text, date text,   *)
(* time text) is redrawn only if its formatted string differs from the     *)
(* string it showed after the previous tick.                               *)
(***************************************************************************)
C7_Original ==
  SensorsDrawn =>
    /\ BatteryDrawn => cell.battery # cell0.battery
    /\ DateDrawn => cell.date # cell0.date
    /\ TimeDrawn => cell.time # cell0.time

(***************************************************************************)
(* C7, amended: the battery cell is redrawn only if the sampled value      *)
(* differs from the previous tick's sample, so that it is redrawn with an  *)
(* unchanged string only between two different negative samples (both      *)
(* shown as "none"); the date and the time cell are redrawn in every tick  *)
(* in which the clock is enabled, changed or not.                          *)
(***************************************************************************)
C7_Amended ==
  SensorsDrawn =>
    /\ BatteryDrawn => (~last.valid \/ cur.battery # last.battery)
    /\ (BatteryDrawn /\ cell.battery = cell0.battery) =>
         (last.valid /\ cur.battery < 0 /\ last.battery < 0)
    /\ DateDrawn <=> rtc_enabled
    /\ TimeDrawn <=> rtc_enabled

\* The clock strings are redrawn unchanged while the battery cell, also
\* unchanged, is left alone.
C7_Witness ==
  /\ SensorsDrawn
  /\ last.valid
  /\ DateDrawn
  /\ TimeDrawn
  /\ cell.date = cell0.date
  /\ cell.time = cell0.time
  /\ cell.battery = "077"
  /\ cell0.battery = "077"
  /\ ~BatteryDrawn

(***************************************************************************)
(* C8: update_battery redraws the battery cell if and only if the sample   *)
(* differs from prev_battery, and prev_battery is the sample afterwards.   *)
(***************************************************************************)
C8_BatteryRedraw ==
  [][(pc = "battery" /\ pc' = "rtc") =>
       /\ prev_battery' = cur'.battery
       /\ (Len(ops') > Len(ops)) <=> (cur'.battery # prev_battery)
       /\ (Len(ops') > Len(ops)) =>
            \E k \in (Len(ops) + 1)..Len(ops') :
              /\ ops'[k].op = "print"
              /\ ops'[k].text = BatteryText(cur'.battery)]_vars

\* 77 in the previous tick, 63 in this one: "063" is drawn and 63 stored.
C8_Witness ==
  /\ pc = "rtc"
  /\ last.valid
  /\ last.battery = 77
  /\ cur.battery = 63
  /\ prev_battery = 63
  /\ \E k \in 1..Len(ops) : ops[k].by = "battery" /\ ops[k].text = "063"

(***************************************************************************)
(* C9: a process_button call that finds none of the five flags raised      *)
(* returns None and has no side effect: the indicator colour and           *)
(* any_button_event are left as they were and no tone, log line or draw    *)
(* is issued.                                                              *)
(***************************************************************************)
C9_NoneNoEffect ==
  [][(pc = "buttons" /\ pc' = "buttons" /\ Len(ev') = Len(ev) + 1
        /\ btn' = NoFlags) =>
       /\ ev' = Append(ev, 0)
       /\ led' = led
       /\ any_button_event' = any_button_event
       /\ ops' = ops]_vars

\* A channel without a raised flag, processed after one that had an event.
C9_Witness ==
  /\ pc = "buttons"
  /\ Len(ev) >= 2
  /\ btn = NoFlags
  /\ ev[Len(ev)] = 0
  /\ ev[Len(ev) - 1] # 0
  /\ any_button_event
  /\ led = BUTTON_STATE_COLORS[ev[Len(ev) - 1] + 1]
  /\ \A k \in 1..Len(ops) : ops[k].by # ButtonNames[Len(ev)]

(***************************************************************************)
(* C10: once buttons_update has returned, buttons_any_pressed() is true    *)
(* if and only if one of the five channels returned a non-None state in    *)
(* that buttons_update.                                                    *)
(***************************************************************************)
C10_AnyPressed ==
  (Len(ev) = Len(ButtonNames) /\ pc # "buttons") =>
    (buttons_any_pressed <=> \E i \in 1..Len(ev) : ev[i] # 0)

\* A tick without an event, after a tick that had one (the LED still shows
\* it): buttons_any_pressed() is false.
C10_Witness ==
  /\ pc = "battery"
  /\ Len(ev) = Len(ButtonNames)
  /\ \A i \in 1..Len(ev) : ev[i] = 0
  /\ led # LedUnset
  /\ ~buttons_any_pressed

(***************************************************************************)
(* Reading the trace: commits and write scopes                             *)
(***************************************************************************)
\* Positions in the trace of the calls of M5.Display.display().
Commits == {k \in 1..Len(ops) : ops[k].op = "display"}

\* Callers of the button classifier and of the sensor renderer.
ButtonParts == {"buttons_update"} \cup {ButtonNames[i] : i \in 1..Len(ButtonNames)}
RendererParts == SensorParts \cup {"sensors_update"}

\* Operations on the display (the LED, the speaker and the log are not).
DisplayOps ==
  {"startWrite", "endWrite", "fillRect", "setCursor", "print", "drawString",
   "setClipRect", "clearClipRect", "displayBusy", "display"}

\* A tick has run to its end and the next has not begun.
TickDone == pc = "loop" /\ ops # <<>>

(***************************************************************************)
(* C11: every tick performs exactly one display commit, and it is the last *)
(* display operation of the tick: every draw of the button classifier and  *)
(* of the three sensor sub-updates precedes it, and it is issued even when *)
(* nothing was drawn.                                                      *)
(***************************************************************************)
C11_OneCommitLast ==
  /\ Cardinality(Commits) <= 1
  /\ Commits # {} <=> TickDone
  /\ \A k \in Commits : k = Len(ops)
  /\ TickDone => \A k \in 1..(Len(ops) - 1) : ops[k].op # "display"

\* A finished tick in which the classifier and the renderer both drew.
C11_Witness ==
  /\ TickDone
  /\ ops[Len(ops)].op = "display"
  /\ \E k \in 1..Len(ops) : ops[k].by \in ButtonParts /\ ops[k].op \in DrawOps
  /\ \E k \in 1..Len(ops) : ops[k].by \in SensorParts /\ ops[k].op \in DrawOps

\* A finished tick in which nothing was drawn and the commit was issued.
C11_WitnessNothingDrawn ==
  /\ TickDone
  /\ Commits = {Len(ops)}
  /\ \A k \in 1..Len(ops) : ops[k].op \notin DrawOps

\* The depth of the batched-write scope after the first k calls of the tick.
Depth(k) ==
  Cardinality({j \in 1..k : ops[j].op = "startWrite"})
    - Cardinality({j \in 1..k : ops[j].op = "endWrite"})

\* Between two of the functions loop() and sensors_update() call.
BetweenCalls == pc \in {"loop", "battery", "rtc", "imu", "display"}

(***************************************************************************)
(* C12: the depth of the batched-write scope is 0 or 1 in every state of   *)
(* the tick loop: startWrite is never called while a scope is open, every  *)
(* function has closed the scope it opened when it returns (early returns  *)
(* included), and the depth is 0 when the commit is issued.                *)
(***************************************************************************)
C12_ScopeDepth ==
  /\ \A k \in 0..Len(ops) : Depth(k) \in {0, 1}
  /\ \A k \in 1..Len(ops) : ops[k].op = "startWrite" => Depth(k - 1) = 0
  /\ \A k \in 1..Len(ops) : ops[k].op = "endWrite" => Depth(k - 1) = 1
  /\ BetweenCalls => Depth(Len(ops)) = 0
  /\ \A k \in Commits : Depth(k - 1) = 0

\* The fourth scope of a tick is open (update_imu waits for the display)
\* after buttons_update, update_battery and update_rtc closed theirs.
C12_Witness ==
  /\ pc = "imu_wait"
  /\ Depth(Len(ops)) = 1
  /\ Cardinality({k \in 1..Len(ops) : ops[k].op = "startWrite"}) = 4
  /\ Cardinality({k \in 1..Len(ops) : ops[k].op = "endWrite"}) = 3

\* Positions of loop() inside sensors_update.
RendererPcs ==
  {"battery", "rtc", "imu", "imu_wait", "imu_delay", "imu_draw", "display"}

\* Calls of the classifier and of the renderer in the trace o.
ClassifierCalls(o) == SelectSeq(o, LAMBDA c : c.by \in ButtonParts)
RendererCalls(o) == SelectSeq(o, LAMBDA c : c.by \in RendererParts)

\* The classifier has handled its five channels and closed its scope, and
\* nothing of the renderer has happened yet.
ClassifierDone ==
  /\ Len(ev) = Len(ButtonNames)
  /\ ops # <<>>
  /\ ops[Len(ops)] = Call("buttons_update", 77, "endWrite")
  /\ Depth(Len(ops)) = 0
  /\ RendererCalls(ops) = <<>>

\* A step taken inside sensors_update; a step that leaves what the
\* classifier owns as it was.
RendererStep == pc \in RendererPcs

ClassifierUntouched ==
  /\ ClassifierCalls(ops') = ClassifierCalls(ops)
  /\ UNCHANGED <<led, any_button_event, ev>>

(***************************************************************************)
(* C13: within one tick the button classifier has applied the side effects *)
(* of all five channels and closed its batched-write scope before the      *)
(* sensor renderer takes its first sample or issues its first call, and    *)
(* nothing the classifier owns (its calls, the LED colour,                 *)
(* any_button_event, the channel states) changes once sensors_update has   *)
(* begun.                                                                  *)
(***************************************************************************)
C13_ClassifierFirst ==
  /\ [](pc = "battery" => ClassifierDone)
  /\ [](pc \in {"loop", "buttons"} /\ ~TickDone => RendererCalls(ops) = <<>>)
  /\ [](\A j, k \in 1..Len(ops) :
          (j < k /\ ops[j].by \in RendererParts) => ops[k].by \in RendererParts)
  /\ [][RendererStep => ClassifierUntouched]_vars

\* Two channels were clicked in the first tick: LED, tone, log and overlay
\* are in the trace and the scope is closed before the battery is sampled.
C13_Witness ==
  /\ pc = "battery"
  /\ ~last.valid
  /\ cur = NoSample
  /\ NumActive(ev) = 2
  /\ led = BUTTON_STATE_COLORS[3]
  /\ any_button_event
  /\ \E k \in 1..Len(ops) : ops[k].by \in ButtonParts /\ ops[k].op = "fillRect"
  /\ ClassifierDone

\* The calls one sub-update made in this tick, and the scopes it opened.
PartCalls(part) == SelectSeq(ops, LAMBDA c : c.by = part)

PartScopes(part) ==
  Cardinality({k \in 1..Len(ops) : ops[k].by = part /\ ops[k].op = "startWrite"})

SensorScopes == PartScopes("battery") + PartScopes("rtc") + PartScopes("imu")

\* A sub-update that made calls made them inside one scope of its own:
\* startWrite first, endWrite last, no other of either.
OwnScope(part) ==
  LET c == PartCalls(part)
  IN  c # <<>> =>
        /\ c[1].op = "startWrite"
        /\ c[Len(c)].op = "endWrite"
        /\ \A k \in 2..(Len(c) - 1) : c[k].op \notin {"startWrite", "endWrite"}

(***************************************************************************)
(* C14, as claimed: in every tick the battery, clock and IMU sub-updates   *)
(* draw inside one and the same batched-write scope: the renderer opens a  *)
(* scope at most once per tick.                                            *)
(***************************************************************************)
C14_Original == SensorsDrawn => SensorScopes <= 1

(***************************************************************************)
(* C14, amended: each sub-update that draws opens a batched-write scope of *)
(* its own and closes it before it returns, so the renderer opens up to    *)
(* three scopes in a tick, one after the other (the battery's when the     *)
(* level changed, the clock's when the clock is enabled, the IMU's when    *)
(* the IMU is enabled); what the three share is the commit.                *)
(***************************************************************************)
C14_Amended ==
  SensorsDrawn =>
    /\ \A part \in SensorParts : OwnScope(part)
    /\ RendererCalls(ops)
         = PartCalls("battery") \o PartCalls("rtc") \o PartCalls("imu")
    /\ PartScopes("battery") = IF BatteryDrawn THEN 1 ELSE 0
    /\ PartScopes("rtc") = IF rtc_enabled THEN 1 ELSE 0
    /\ PartScopes("imu") = IF imu_enabled THEN 1 ELSE 0

\* A tick in which all three sub-updates drew, each in its own scope.
C14_Witness ==
  /\ SensorsDrawn
  /\ SensorScopes = 3
  /\ BatteryDrawn
  /\ DateDrawn
  /\ \E i \in Channels : ImuFills(i) # <<>>

\* The IMU fills in the trace o.
ImuFillCalls(o) == SelectSeq(o, LAMBDA c : c.by = "imu" /\ c.op = "fillRect")

\* A step that issues an IMU fill or changes a stored extent.
ImuDrawStep ==
  \/ ImuFillCalls(ops') # ImuFillCalls(ops) /\ ImuFillCalls(ops') # <<>>
  \/ prev_xpos' # prev_xpos

\* A poll of the wait that finds the display busy, one that finds it ready.
BusyPoll == pc = "imu_wait" /\ imu_busy'
ReadyPoll == pc = "imu_wait" /\ ~imu_busy'

\* update_imu is in its busy-wait loop.
Waiting == pc \in {"imu_wait", "imu_delay"}

(***************************************************************************)
(* C15: in a tick with the IMU available no IMU fill is issued and no      *)
(* stored extent changes until a poll of the busy-wait loop found the      *)
(* display not busy in that tick: the fills are reached only through such  *)
(* a poll, and a poll that finds the display busy issues nothing and       *)
(* stores nothing.                                                         *)
(***************************************************************************)
C15_FillsAfterReady ==
  /\ [](Waiting => (ImuFillCalls(ops) = <<>> /\ prev_xpos = px0))
  /\ [](pc = "imu_draw" => (~imu_busy /\ ImuFillCalls(ops) = <<>>))
  /\ [][BusyPoll => (pc' = "imu_delay" /\ UNCHANGED <<ops, prev_xpos>>)]_vars
  /\ [][(pc = "imu_delay") =>
          (pc' = "imu_wait" /\ UNCHANGED <<ops, prev_xpos>>)]_vars
  /\ [][(pc' = "imu_draw") => (pc = "imu_draw" \/ ReadyPoll)]_vars
  /\ [][ImuDrawStep => (pc = "imu_draw" /\ ~imu_busy)]_vars

\* The display has been busy for MaxPolls polls; the sample differs from the
\* stored extents and nothing has been filled or stored.
C15_Witness ==
  /\ pc = "imu_wait"
  /\ imu_busy
  /\ polls = MaxPolls
  /\ \E i \in Channels : xpos[i] # prev_xpos[i]
  /\ ImuFillCalls(ops) = <<>>
  /\ prev_xpos = px0

(***************************************************************************)
(* C16: every tick that starts runs to its end-of-tick commit, provided    *)
(* the display does not stay busy forever while it is polled; no other     *)
(* step of the tick waits for anything.                                    *)
(***************************************************************************)
C16_TickCompletes == (pc # "loop") ~> (TickDone /\ Commits = {Len(ops)})

\* A tick that was committed after the display had been busy for MaxPolls
\* polls.
C16_Witness ==
  /\ TickDone
  /\ Commits = {Len(ops)}
  /\ polls = MaxPolls
  /\ ~imu_busy
  /\ PartCalls("imu") # <<>>

(***************************************************************************)
(* C17, as claimed: the wait on a busy display is bounded polling: it ends *)
(* after a bounded number of polls even if the display keeps reporting     *)
(* busy. (The display is under no obligation here: SpecStall.)             *)
(***************************************************************************)
C17_Original == Waiting ~> ~Waiting

(***************************************************************************)
(* C17, amended: the wait on a busy display is polling without a bound: a  *)
(* poll that finds the display busy is followed by another poll, however   *)
(* many there have been, and the wait ends only by a poll that finds the   *)
(* display not busy, after which the fills follow; the busy condition is   *)
(* not surfaced: a busy poll makes no call and update_imu's calls are the  *)
(* same as without a wait.                                                 *)
(***************************************************************************)
C17_Amended ==
  /\ [][BusyPoll => (pc' = "imu_delay" /\ ops' = ops)]_vars
  /\ [][(pc = "imu_delay") => (pc' = "imu_wait" /\ ops' = ops)]_vars
  /\ [][(Waiting /\ ~Waiting') => (ReadyPoll /\ pc' = "imu_draw")]_vars
  /\ [](Waiting =>
          PartCalls("imu")
            = <<Call("imu", 119, "startWrite"),
                Op("imu", 120, "setClipRect", BarHeight, BarHeight,
                   DisplayWidth, DisplayHeight, "", "")>>)
  /\ [](\A k \in 1..Len(ops) : ops[k].by = "imu" => ops[k].op # "log")

\* Still waiting after MaxPolls busy polls, in a tick after the first.
C17_Witness ==
  /\ pc = "imu_wait"
  /\ last.valid
  /\ imu_busy
  /\ polls = MaxPolls
  /\ Len(PartCalls("imu")) = 2

(***************************************************************************)
(* C18: the busy-display wait has no timeout: if from some point on every  *)
(* poll finds the display busy, the tick that polls never reaches its      *)
(* commit and no later tick starts (the button classifier does not run     *)
(* again).                                                                 *)
(***************************************************************************)
C18_NoTimeout ==
  <>[]imu_busy => <>[](Waiting /\ Commits = {} /\ Len(ev) = Len(ButtonNames))

\* The display is busy at the MaxPolls-th poll of a tick whose classifier
\* saw a click: the commit is outstanding and the LED still shows the click.
C18_Witness ==
  /\ pc = "imu_wait"
  /\ imu_busy
  /\ polls = MaxPolls
  /\ Commits = {}
  /\ any_button_event
  /\ led = BUTTON_STATE_COLORS[3]

(***************************************************************************)
(* C19: an unavailable sensor has its sub-update skipped for the tick and  *)
(* nothing else is affected. With the IMU unavailable update_imu opens no  *)
(* scope, sets no clip, does not poll the busy flag, issues no fill and    *)
(* leaves the six stored extents as they were; with the clock unavailable  *)
(* update_rtc draws nothing; the battery sub-update and the commit still   *)
(* run, and nothing is logged.                                             *)
(***************************************************************************)
C19_UnavailableSkipped ==
  /\ ~imu_enabled =>
       /\ PartCalls("imu") = <<>>
       /\ pc \notin {"imu_wait", "imu_delay", "imu_draw"}
       /\ polls = 0 /\ ~imu_busy
       /\ prev_xpos = [i \in Channels |-> 0]
  /\ ~rtc_enabled =>
       /\ PartCalls("rtc") = <<>>
       /\ cell.date = "" /\ cell.time = ""
  /\ (pc \in RendererPcs \ {"battery"} \/ TickDone) =>
       /\ prev_battery = cur.battery
       /\ cell.battery = BatteryText(cur.battery)
  /\ pc \in RendererPcs \ {"battery"} =>
       (BatteryDrawn <=> (~last.valid \/ cur.battery # last.battery))
  /\ TickDone => Commits = {Len(ops)}
  /\ \A k \in 1..Len(ops) : ops[k].by \in RendererParts => ops[k].op # "log"

\* Neither clock nor IMU: a tick after the first redrew the battery cell
\* for a new level and committed, and that is all the renderer did.
C19_Witness ==
  /\ TickDone
  /\ ~imu_enabled
  /\ ~rtc_enabled
  /\ last.valid
  /\ cell0.battery = "077"
  /\ cell.battery = "063"
  /\ Len(RendererCalls(ops)) = Len(PartCalls("battery")) + 1
  /\ Commits = {Len(ops)}

\* The strings update_rtc draws from what it read in this tick.
FallbackDrawn ==
  Draws("rtc")
    = <<Op("rtc", 76, "drawString", DisplayWidth \div 2, 0, 0, 0, "",
           DateText(cur.clock.tm.tm_year + 1900, cur.clock.tm.tm_mon + 1,
                    cur.clock.tm.tm_mday, cur.clock.tm.tm_wday)),
        Op("rtc", 82, "drawString", DisplayWidth \div 2, FontHeight, 0, 0, "",
           TimeText(cur.clock.tm.tm_hour, cur.clock.tm.tm_min,
                    cur.clock.tm.tm_sec))>>

RtcDrawn ==
  Draws("rtc")
    = <<Op("rtc", 54, "drawString", DisplayWidth \div 2, 0, 0, 0, "",
           DateText(cur.clock.dt.year, cur.clock.dt.month, cur.clock.dt.date,
                    cur.clock.dt.weekDay)),
        Op("rtc", 61, "drawString", DisplayWidth \div 2, FontHeight, 0, 0, "",
           TimeText(cur.clock.dt.hours, cur.clock.dt.minutes,
                    cur.clock.dt.seconds))>>

(***************************************************************************)
(* C20, as claimed: when the real-time clock is not available the clock    *)
(* sub-update falls back to the system time and redraws the date and the   *)
(* time string in every tick.                                              *)
(***************************************************************************)
C20_Original == (SensorsDrawn /\ ~rtc_enabled) => FallbackDrawn

(***************************************************************************)
(* C20, amended: the fallback belongs to an enabled clock whose read       *)
(* fails: when the RTC is enabled and getDateTime() fails, update_rtc      *)
(* draws the date and the time string formatted from the system time, in   *)
(* every such tick; when the read succeeds it draws them from the RTC      *)
(* reading; when the RTC is not enabled it draws nothing.                  *)
(***************************************************************************)
C20_Amended ==
  SensorsDrawn =>
    /\ ~rtc_enabled => Draws("rtc") = <<>>
    /\ (rtc_enabled /\ ~cur.clock.ok) => FallbackDrawn
    /\ (rtc_enabled /\ cur.clock.ok) => RtcDrawn

\* Two ticks in a row read the system time instead of the RTC; the second
\* draws the same two strings again.
C20_Witness ==
  /\ SensorsDrawn
  /\ rtc_enabled
  /\ last.valid
  /\ ~last.clock.ok
  /\ ~cur.clock.ok
  /\ FallbackDrawn
  /\ cell.time = "07:05:58"
  /\ cell0.time = "07:05:58"

\* update_rtc has returned in this tick and update_imu has not begun.
RtcDone == pc = "imu"

(***************************************************************************)
(* C21: whenever the clock is enabled update_rtc issues exactly two text   *)
(* draws in the tick, the date string (at the top) and then the time       *)
(* string (one text line below), between one startWrite and one endWrite   *)
(* of its own, whether or not the strings changed since the previous tick  *)
(* and whether the RTC was read or the system time was used.               *)
(***************************************************************************)
C21_ClockTwoDraws ==
  (RtcDone /\ rtc_enabled) =>
    LET c == PartCalls("rtc")
    IN  /\ Len(c) = 4
        /\ c[1].op = "startWrite"
        /\ c[2].op = "drawString" /\ c[2].y = 0 /\ c[2].text = cell.date
        /\ c[3].op = "drawString" /\ c[3].y = FontHeight
        /\ c[3].text = cell.time
        /\ c[4].op = "endWrite"
        /\ c[2].line \in {54, 76} /\ c[3].line \in {61, 82}
        /\ (c[2].line = 54) <=> cur.clock.ok
        /\ (c[3].line = 61) <=> cur.clock.ok
        /\ ops[Len(ops)] = c[4]

\* The RTC was read and delivered what it delivered in the previous tick:
\* both strings are drawn again.
C21_Witness ==
  /\ RtcDone
  /\ rtc_enabled
  /\ last.valid
  /\ last.clock.ok
  /\ cur.clock = last.clock
  /\ cell.date = cell0.date
  /\ cell.time = cell0.time
  /\ Len(Draws("rtc")) = 2

\* The calls channel i made in this tick.
ChannelCallsOf(i) == PartCalls(ButtonNames[i])

\* Channels whose process_button call of this tick returned a non-zero state.
ActiveChannels == {i \in 1..Len(ev) : ev[i] # 0}

\* Inside buttons_update, or just returned from it: the states in which the
\* trace of the classifier grows and is complete.
AtClassifier == pc \in {"buttons", "battery"}

\* Channel i found the display busy (line 51) in this tick.
FoundBusy(i) ==
  LET c == ChannelCallsOf(i)
  IN  \E k \in 1..Len(c) : c[k].op = "displayBusy" /\ c[k].text = "busy"

\* Channel i drew its click-counter cell (lines 53-56) in this tick.
CounterDrawn(i) ==
  LET c == ChannelCallsOf(i)
  IN  \E k \in 1..Len(c) : c[k].op \in {"fillRect", "print"}

\* Every call a channel made lies inside the scope buttons_update opened
\* at line 68: the scope is the first call of the tick, and no channel call
\* comes after the first endWrite.
ChannelsInScope ==
  LET ends == {k \in 1..Len(ops) : ops[k].op = "endWrite"}
      firstEnd == IF ends = {} THEN Len(ops) + 1
                  ELSE CHOOSE k \in ends : \A m \in ends : k <= m
  IN  /\ ops[1] = Call("buttons_update", 68, "startWrite")
      /\ \A k \in 2..Len(ops) :
           /\ (k < firstEnd) => ops[k].op # "startWrite"
           /\ (k >= firstEnd) => ops[k].by \notin ButtonParts \ {"buttons_update"}

(***************************************************************************)
(* C22: for a channel that returned a non-zero state the click-counter     *)
(* cell (fillRect, setCursor, print) is drawn exactly when displayBusy()   *)
(* returned false to that call, and every call of the channel lies inside  *)
(* the scope buttons_update opened; a busy display suppresses the draw     *)
(* only: the LED colour, the tone, the log line and any_button_event are   *)
(* applied all the same.                                                   *)
(***************************************************************************)
C22_BusySkipsDrawOnly ==
  (AtClassifier /\ ActiveChannels # {}) =>
    /\ any_button_event
    /\ ChannelsInScope
    /\ \A i \in ActiveChannels :
         LET c == ChannelCallsOf(i)
         IN  /\ Len(c) >= 4
             /\ c[1].op = "setAllColor"
             /\ c[2].op = "tone"
             /\ c[3].op = "log"
             /\ c[4].op = "displayBusy"
             /\ CounterDrawn(i) <=> ~FoundBusy(i)
             /\ IF FoundBusy(i)
                THEN Len(c) = 4
                ELSE /\ Len(c) = 7
                     /\ c[5].op = "fillRect"
                     /\ c[5].y = BarHeight * ButtonRows[i]
                     /\ c[6].op = "setCursor" /\ c[6].y = c[5].y
                     /\ c[7].op = "print"

\* One channel found the display busy and another did not, in one tick:
\* both set the LED and asked for a tone, only the second drew its cell.
C22_Witness ==
  /\ pc = "battery"
  /\ any_button_event
  /\ \E i, j \in ActiveChannels :
       /\ FoundBusy(i) /\ ~CounterDrawn(i)
       /\ ~FoundBusy(j) /\ CounterDrawn(j)
       /\ Len(ChannelCallsOf(i)) = 4
       /\ led = BUTTON_STATE_COLORS[ev[Max(i, j)] + 1]

\* The last channel of this tick that returned a non-zero state.
LastActive == Max(1, CHOOSE i \in ActiveChannels : \A j \in ActiveChannels : j <= i)

(***************************************************************************)
(* C23: a channel that returns a non-zero state e sets the LED to entry e  *)
(* of the six-entry colour table: cyan for 1 (hold), red for 2 (clicked),  *)
(* yellow for 3 (pressed), blue for 4 (released), green for 5 (click count *)
(* decided), whatever the channel; e is one of 1..5, so the index is       *)
(* inside the table.                                                       *)
(***************************************************************************)
C23_LedColor ==
  AtClassifier =>
  /\ Len(BUTTON_STATE_COLORS) = 6
  /\ \A i \in 1..Len(ev) : ev[i] \in 0..5
  /\ \A i \in ActiveChannels :
       LET want == CASE ev[i] = 1 -> "TFT_CYAN"
                     [] ev[i] = 2 -> "TFT_RED"
                     [] ev[i] = 3 -> "TFT_YELLOW"
                     [] ev[i] = 4 -> "TFT_BLUE"
                     [] ev[i] = 5 -> "TFT_GREEN"
           c == ChannelCallsOf(i)
       IN  /\ ev[i] + 1 \in 2..Len(BUTTON_STATE_COLORS)
           /\ Cardinality({k \in 1..Len(c) : c[k].op = "setAllColor"}) = 1
           /\ c[1].op = "setAllColor"
           /\ c[1].color = want
           /\ i = LastActive => led = want

\* Two different channels returned the same state in one tick and set the
\* LED to the same colour; the five states have all been seen elsewhere.
C23_Witness ==
  /\ pc = "battery"
  /\ \E i, j \in ActiveChannels :
       /\ i < j
       /\ ev[i] = 5 /\ ev[j] = 5
       /\ ChannelCallsOf(i)[1].color = "TFT_GREEN"
       /\ ChannelCallsOf(j)[1].color = "TFT_GREEN"
       /\ led = "TFT_GREEN"

\* The tone requests channel i made in this tick.
TonesOf(i) == SelectSeq(ChannelCallsOf(i), LAMBDA o : o.op = "tone")

\* All tone requests of this tick.
TonesOfTick == SelectSeq(ops, LAMBDA o : o.op = "tone")

(***************************************************************************)
(* C24: a channel that returns a non-zero state requests exactly one tone, *)
(* at the frequency fixed for the channel (PWR 784 Hz, A 523 Hz, B 587 Hz, *)
(* C 659 Hz, EXT 698 Hz) and for 100 ms, whatever the state; a channel     *)
(* that returns zero requests none; the five frequencies are pairwise      *)
(* different.                                                              *)
(***************************************************************************)
C24_ChannelTone ==
  AtClassifier =>
  LET want == <<784, 523, 587, 659, 698>>
  IN  /\ \A i \in 1..Len(ev) :
           IF ev[i] # 0
           THEN /\ Len(TonesOf(i)) = 1
                /\ TonesOf(i)[1].x = want[i]
                /\ TonesOf(i)[1].w = 100
           ELSE TonesOf(i) = <<>>
      /\ Len(TonesOfTick) = Cardinality(ActiveChannels)
      /\ \A i, j \in 1..Len(ButtonTones) :
           i # j => ButtonTones[i] # ButtonTones[j]

\* Channels A and B were both active in one tick, for different states:
\* each asked once, for its own tone.
C24_Witness ==
  /\ pc = "battery"
  /\ ev[2] = 4 /\ ev[3] = 1
  /\ TonesOf(2)[1].x = TONE_BTN_A
  /\ TonesOf(3)[1].x = TONE_BTN_B
  /\ Len(TonesOfTick) = 2

\* The number of calls of one kind in the trace c.
CountIn(c, op) == Cardinality({k \in 1..Len(c) : c[k].op = op})

\* The number of calls of one kind a part made in this tick.
CountOf(part, op) == CountIn(PartCalls(part), op)

\* buttons_update has returned in this tick.
ClassifierReturned == pc # "buttons" /\ ops # <<>>

(***************************************************************************)
(* C25: in every tick process_button runs once for each of the five        *)
(* channels, in the order PWR, A, B, C, EXT: five states are returned by   *)
(* the time buttons_update returns, the calls the channels make appear in  *)
(* that order, and a channel makes one set of side effects (LED, tone,     *)
(* log, busy poll, at most one cell draw) when its state is non-zero and   *)
(* none otherwise.                                                         *)
(***************************************************************************)
C25_OncePerChannel ==
  LET order == <<"BtnPWR", "BtnA", "BtnB", "BtnC", "BtnEXT">>
      names == {order[i] : i \in 1..5}
      Pos(n) == CHOOSE i \in 1..5 : order[i] = n
  IN  /\ Len(ev) <= 5
      /\ ClassifierReturned => Len(ev) = 5
      /\ AtClassifier =>
           LET c == SelectSeq(ops, LAMBDA o : o.by # "buttons_update")
           IN  /\ \A k \in 1..Len(c) :
                    /\ c[k].by \in names
                    /\ Pos(c[k].by) <= Len(ev)
                    /\ k < Len(c) => Pos(c[k].by) <= Pos(c[k + 1].by)
               /\ \A i \in 1..Len(ev) :
                    LET n == IF ev[i] # 0 THEN 1 ELSE 0
                        ci == SelectSeq(c, LAMBDA o : o.by = order[i])
                    IN  /\ CountIn(ci, "setAllColor") = n
                        /\ CountIn(ci, "tone") = n
                        /\ CountIn(ci, "log") = n
                        /\ CountIn(ci, "displayBusy") = n
                        /\ CountIn(ci, "print") <= n

\* PWR and EXT, the first and the last channel, were both active in one
\* tick: the calls of PWR all precede those of EXT, one set each.
C25_Witness ==
  /\ pc = "battery"
  /\ Len(ev) = 5
  /\ ev[1] # 0 /\ ev[5] # 0
  /\ ev[2] = 0 /\ ev[3] = 0 /\ ev[4] = 0
  /\ CountOf("BtnPWR", "tone") = 1
  /\ CountOf("BtnEXT", "tone") = 1
  /\ ops[2].by = "BtnPWR"
  /\ ops[Len(ops) - 1].by = "BtnEXT"

\* audio_play_tone has made its request and not yet been called again.
ToneRequested == tone_pc \in {"poll", "delay", "returned"}

\* audio_play_tone has returned to its caller.
ToneReturned == tone_pc = "returned"

(***************************************************************************)
(* C26: audio_play_tone(frequency, duration_ms, wait) requests the tone    *)
(* from the speaker exactly once, with its own arguments; with wait false  *)
(* it returns without a single isPlaying() poll; with wait true it returns *)
(* only after a poll, in a state in which the speaker is not playing; and  *)
(* with a speaker that does not play forever every call returns.           *)
(***************************************************************************)
C26_ToneOnce ==
  /\ [](ToneRequested =>
          tone_reqs = <<<<tone_arg.frequency, tone_arg.duration_ms>>>>)
  /\ []((ToneReturned /\ ~tone_arg.wait) => tone_polls = 0)
  /\ []((ToneReturned /\ tone_arg.wait) => (tone_polls >= 1 /\ ~playing))
  /\ [](tone_pc \in {"poll", "delay"} => tone_arg.wait)
  /\ (tone_pc = "tone") ~> ToneReturned

\* A waiting call returned after MaxPolls polls or more, the last of which
\* found the speaker silent.
C26_Witness ==
  /\ ToneReturned
  /\ tone_arg.wait
  /\ tone_polls = MaxPolls
  /\ ~playing
  /\ Len(tone_reqs) = 1

\* What a full redraw of channel i's row from the stored extent shows in
\* the channel's colour: the columns between the origin and the extent, as
\* far as they are inside the clip region.
FullRedraw(i) == Between(BarOrigin, BarOrigin + prev_xpos[i]) \cap ClipColumns

BatteryDone == pc = "rtc"

\* No tick has run to its end yet.
FirstTick == ~last.valid

\* The state setup() leaves: loop() has not been entered yet.
AtStart == pc = "loop" /\ ops = <<>>

(***************************************************************************)
(* C28: in the first tick after start-up the battery cell is drawn         *)
(* whatever the sample is, any percentage 0..100 or a negative value,      *)
(* because prev_battery starts at a value no sample equals; from the       *)
(* second tick on the cell is drawn exactly when the sample differs from   *)
(* that of the tick before.                                                *)
(***************************************************************************)
C28_FirstTickDraws ==
  /\ AtStart =>
       /\ prev_battery = PrevBatteryAtStart
       /\ BatteryLevels \subseteq (-3)..100
       /\ \A b \in (-3)..100 :
            /\ BatteryChanged(prev_battery, b)
            /\ BatteryCalls(prev_battery, b) # <<>>
  /\ (BatteryDone /\ FirstTick) => (BatteryDrawn /\ prev_battery = cur.battery)
  /\ (BatteryDone /\ ~FirstTick) =>
       (BatteryDrawn <=> cur.battery # last.battery)

\* The first tick sampled a full battery and drew "100".
C28_Witness ==
  /\ pc = "rtc"
  /\ FirstTick
  /\ cur.battery = 100
  /\ BatteryDrawn
  /\ cell.battery = "100"
  /\ cell0.battery = ""

\* The value texts update_battery printed in this tick (lines 24, 26).
BatteryValueTexts ==
  SelectSeq(ops, LAMBDA o : o.by = "battery" /\ o.line \in {24, 26})

\* The hundreds, tens and units digits of a number below 1000.
ThreeDigits(n) ==
  Digit(n \div 100) \o Digit((n \div 10) % 10) \o Digit(n % 10)

(***************************************************************************)
(* C29: when the battery cell is redrawn its value text is "none" exactly  *)
(* when the sample is negative; otherwise it is the sample in decimal,     *)
(* padded with zeros to three digits at least: 77 gives "077", 100 gives   *)
(* "100".                                                                  *)
(***************************************************************************)
C29_BatteryText ==
  /\ AtStart =>
       /\ \A b \in (-3)..999 :
            /\ (BatteryText(b) = "none") <=> (b < 0)
            /\ b >= 0 => BatteryText(b) = ThreeDigits(b)
       /\ Len(BatteryText(1000)) = 4
       /\ BatteryText(77) = "077"
       /\ BatteryText(100) = "100"
  /\ (BatteryDone /\ BatteryDrawn) =>
       /\ Len(BatteryValueTexts) = 1
       /\ LET o == BatteryValueTexts[1]
          IN  /\ o.op = "print"
              /\ (o.text = "none") <=> (cur.battery < 0)
              /\ (o.line = 26) <=> (cur.battery < 0)
              /\ cur.battery >= 0 =>
                   (o.text = ThreeDigits(cur.battery) /\ Len(o.text) = 3)
              /\ cell.battery = o.text

\* 77 was sampled and "077" drawn.
C29_Witness ==
  /\ pc = "rtc"
  /\ cur.battery = 77
  /\ BatteryDrawn
  /\ BatteryValueTexts[1].text = "077"
  /\ BatteryValueTexts[1].line = 24

\* The fills of channel i in this tick issued by the erase of line 138.
EraseFills(i) == SelectSeq(ImuFills(i), LAMBDA o : o.line = 138)

(***************************************************************************)
(* C30: update_imu treats an extent of 0 as not negative. From 0 to a      *)
(* positive extent, or from a positive extent to 0, the sign test of line  *)
(* 136 is false and exactly one fill, the delta fill, is issued. From 0 to *)
(* a negative extent the sign test is true, no erase fill is issued (the   *)
(* previous extent is 0) and exactly one fill in the channel's colour is.  *)
(* From a negative extent to 0 the sign test is true and exactly one fill  *)
(* is issued: the erase, in the background colour, of the whole previous   *)
(* bar.                                                                    *)
(***************************************************************************)
C30_ZeroIsNonNegative ==
  (imu_enabled /\ SensorsDrawn) =>
    \A i \in Channels :
      LET fs == ImuFills(i)
          p == px0[i]
          x == xpos[i]
      IN  /\ (p = 0 /\ x > 0) =>
               /\ Len(fs) = 1 /\ EraseFills(i) = <<>>
               /\ fs[1].color = ImuColor[i]
               /\ FillColumns(fs[1]) = BarOrigin..(BarOrigin + x - 1)
          /\ (p > 0 /\ x = 0) =>
               /\ Len(fs) = 1 /\ EraseFills(i) = <<>>
               /\ fs[1].color = BaseColor
               /\ FillColumns(fs[1]) = BarOrigin..(BarOrigin + p - 1)
          /\ (p = 0 /\ x < 0) =>
               /\ Len(fs) = 1 /\ EraseFills(i) = <<>>
               /\ fs[1].color = ImuColor[i]
               /\ FillColumns(fs[1]) = (BarOrigin + x)..(BarOrigin - 1)
          /\ (p < 0 /\ x = 0) =>
               /\ Len(fs) = 1 /\ EraseFills(i) = fs
               /\ fs[1].color = BaseColor
               /\ FillColumns(fs[1]) = (BarOrigin + p)..(BarOrigin - 1)
          /\ (p = 0 /\ x = 0) => fs = <<>>

\* One tick in which a bar leaves 0 for the left, another returns to 0
\* from the left and a third returns to 0 from the right.
C30_Witness ==
  /\ ImuRan
  /\ pc = "display"
  /\ \E i, j, k \in Channels :
       /\ px0[i] = 0 /\ xpos[i] < 0 /\ Len(ImuFills(i)) = 1
       /\ px0[j] < 0 /\ xpos[j] = 0 /\ Len(EraseFills(j)) = 1
       /\ px0[k] > 0 /\ xpos[k] = 0 /\ Len(DeltaFills(k)) = 1

\* update_imu has just drawn: its fills are in the trace and the commit is
\* not.
ImuDrawn == imu_enabled /\ SensorsDrawn

\* All fills update_imu issued in this tick.
AllImuFills == SelectSeq(ops, LAMBDA o : o.by = "imu" /\ o.op = "fillRect")

\* The extents of channel i have opposite signs and neither is 0.
OppositeSigns(p, x) == (p < 0 /\ x > 0) \/ (p > 0 /\ x < 0)

(***************************************************************************)
(* C31: in every tick update_imu issues at most two fills per channel and  *)
(* so at most twelve in all: none exactly when the new extent equals the   *)
(* stored one, two exactly when both extents are non-zero and of opposite  *)
(* sign, one otherwise; and the fills of channel i are determined by       *)
(* prev_xpos[i] and the new extent of channel i alone, whatever the other  *)
(* five channels do in the same tick.                                      *)
(***************************************************************************)
C31_FillCount ==
  ImuDrawn =>
    /\ Len(AllImuFills) <= 12
    /\ \A i \in Channels :
         LET n == Len(ImuFills(i))
         IN  /\ n <= 2
             /\ (n = 0) <=> (xpos[i] = px0[i])
             /\ (n = 2) <=> OppositeSigns(px0[i], xpos[i])
             /\ ImuFills(i) = ChannelCalls(i, xpos[i], px0[i])

\* One tick in which one channel issues no fill, another one fill and a
\* third two fills.
C31_Witness ==
  /\ ImuDrawn
  /\ last.valid
  /\ \E i, j, k \in Channels :
       /\ Len(ImuFills(i)) = 0 /\ px0[i] # 0
       /\ Len(ImuFills(j)) = 1
       /\ Len(ImuFills(k)) = 2

\* buttons_update has just returned.
ClassifierJustReturned == pc = "battery"

\* The setAllColor calls of this tick, in order.
LedCalls == SelectSeq(ops, LAMBDA o : o.op = "setAllColor")

(***************************************************************************)
(* C32: when several channels return a non-zero state in one tick, the LED *)
(* colour at the return of buttons_update is the colour of the state of    *)
(* the last of them in the order PWR, A, B, C, EXT: a later channel        *)
(* overwrites what an earlier one set.                                     *)
(***************************************************************************)
C32_LastChannelWins ==
  (ClassifierJustReturned /\ ActiveChannels # {}) =>
    LET order == <<"BtnPWR", "BtnA", "BtnB", "BtnC", "BtnEXT">>
        colors == <<"TFT_CYAN", "TFT_RED", "TFT_YELLOW", "TFT_BLUE",
                    "TFT_GREEN">>
        final == CHOOSE i \in ActiveChannels : \A j \in ActiveChannels : j <= i
    IN  /\ led = colors[ev[final]]
        /\ Len(LedCalls) = Cardinality(ActiveChannels)
        /\ LedCalls[Len(LedCalls)].by = order[final]
        /\ LedCalls[Len(LedCalls)].color = led

\* PWR was held and EXT clicked in one tick: the LED is red, as EXT set it,
\* and not cyan, as PWR had set it before.
C32_Witness ==
  /\ ClassifierJustReturned
  /\ ev = <<1, 0, 0, 0, 2>>
  /\ Len(LedCalls) = 2
  /\ LedCalls[1].color = "TFT_CYAN"
  /\ led = "TFT_RED"

\* A step that changes the LED colour.
LedChanges == led' # led

\* A process_button call that returns a non-zero state and sets the LED to
\* the table entry of that state.
LedSetByEvent ==
  /\ pc = "buttons"
  /\ Len(ev') = Len(ev) + 1
  /\ ev'[Len(ev')] \in 1..5
  /\ led' = BUTTON_STATE_COLORS[ev'[Len(ev')] + 1]

(***************************************************************************)
(* C33: the tick loop never resets the LED. Its colour changes only in a   *)
(* process_button call that returns a non-zero state, so over any number   *)
(* of ticks without such a call it stays what the last one made it; and    *)
(* the classifier never sets it to entry 0 of the table, the colour of     *)
(* None: no setAllColor call carries that colour.                          *)
(***************************************************************************)
C33_LedNeverReset ==
  /\ [][LedChanges => LedSetByEvent]_vars
  /\ [](led # BUTTON_STATE_COLORS[1])
  /\ [](AtClassifier =>
          \A k \in 1..Len(LedCalls) : LedCalls[k].color # "TFT_WHITE")

\* A tick has passed the classifier without an event, after at least one
\* whole tick: the LED is still green from an earlier event.
C33_Witness ==
  /\ ClassifierJustReturned
  /\ last.valid
  /\ ev = <<0, 0, 0, 0, 0>>
  /\ LedCalls = <<>>
  /\ led = "TFT_GREEN"

\* update_imu is entered with the IMU present.
ImuEntered == pc = "imu" /\ imu_enabled

\* The step from the entry of update_imu leads to the busy wait, with the
\* scope opened (line 119) and the clip region set (line 120) just before.
EntersWait ==
  /\ pc' = "imu_wait"
  /\ Len(ops') = Len(ops) + 2
  /\ ops'[Len(ops') - 1] = Call("imu", 119, "startWrite")
  /\ ops'[Len(ops')].op = "setClipRect"
  /\ ops'[Len(ops')].line = 120

\* A step that arrives at the fills, and one that does so from a poll that
\* found the display ready.
ReachesFills == pc # "imu_draw" /\ pc' = "imu_draw"
FromReadyPoll == pc = "imu_wait" /\ ~imu_busy'

\* The scope of update_imu is open and its clip region set, and nothing has
\* been called since.
ScopeAndClipOpen ==
  /\ Depth(Len(ops)) = 1
  /\ Len(ops) >= 2
  /\ ops[Len(ops) - 1] = Call("imu", 119, "startWrite")
  /\ ops[Len(ops)].op = "setClipRect"
  /\ ops[Len(ops)].by = "imu"

(***************************************************************************)
(* C34: with the IMU present update_imu waits on displayBusy() in every    *)
(* tick, whether or not a bar changed: its entry always leads to the wait, *)
(* and the fills are reached only from a poll that found the display       *)
(* ready. The wait comes after startWrite and setClipRect, so as long as   *)
(* it lasts the write scope is open and the clip region set; a tick with   *)
(* nothing to draw waits like any other.                                   *)
(***************************************************************************)
C34_WaitEveryTick ==
  /\ [][ImuEntered => EntersWait]_vars
  /\ [][ReachesFills => FromReadyPoll]_vars
  /\ [](Waiting => (imu_enabled /\ ScopeAndClipOpen))

\* No bar has changed since the previous tick, and update_imu has found the
\* display busy MaxPolls times and is waiting on.
C34_Witness ==
  /\ pc = "imu_delay"
  /\ last.valid
  /\ xpos = prev_xpos
  /\ imu_busy
  /\ polls = MaxPolls
  /\ ScopeAndClipOpen

\* Whether the clip region is set after the first k calls of the tick: the
\* setClipRect calls so far less the clearClipRect calls so far.
ClipDepth(k) ==
  Cardinality({j \in 1..k : ops[j].op = "setClipRect"})
    - Cardinality({j \in 1..k : ops[j].op = "clearClipRect"})

(***************************************************************************)
(* C35: the clip region is set only inside update_imu. setClipRect is      *)
(* called right after the startWrite of update_imu and clearClipRect right *)
(* before its endWrite, on every path that opens the scope; every fill of  *)
(* update_imu is issued with the clip region set; and it is not set at any *)
(* call of the button classifier, of update_battery or of update_rtc, nor  *)
(* at the commit, nor between the calls loop() and sensors_update make.    *)
(***************************************************************************)
C35_ClipInsideImu ==
  /\ \A k \in 0..Len(ops) : ClipDepth(k) \in {0, 1}
  /\ \A k \in 1..Len(ops) :
       /\ ops[k].op = "setClipRect" =>
            /\ ops[k].by = "imu"
            /\ k > 1
            /\ ops[k - 1] = Call("imu", 119, "startWrite")
       /\ ops[k].op = "clearClipRect" =>
            /\ ops[k].by = "imu"
            /\ k < Len(ops)
            /\ ops[k + 1] = Call("imu", 158, "endWrite")
       /\ ops[k] = Call("imu", 119, "startWrite") =>
            (k < Len(ops) /\ ops[k + 1].op = "setClipRect")
       /\ ops[k] = Call("imu", 158, "endWrite") =>
            ops[k - 1].op = "clearClipRect"
       /\ (ops[k].by = "imu" /\ ops[k].op = "fillRect") => ClipDepth(k) = 1
       /\ ops[k].by \in ButtonParts \cup {"battery", "rtc", "sensors_update"} =>
            ClipDepth(k) = 0
  /\ BetweenCalls => ClipDepth(Len(ops)) = 0
  /\ ~imu_enabled =>
       \A k \in 1..Len(ops) : ops[k].op \notin {"setClipRect", "clearClipRect"}

\* A whole tick in which a button cell, the battery cell and the clock were
\* drawn outside the clip region, bars were filled inside it, and the commit
\* came after it was cleared.
C35_Witness ==
  /\ TickDone
  /\ ClipDepth(Len(ops)) = 0
  /\ \E k \in 1..Len(ops) : ops[k].op = "setClipRect"
  /\ \E k \in 1..Len(ops) :
       ops[k].by = "imu" /\ ops[k].op = "fillRect" /\ ClipDepth(k) = 1
  /\ \E k \in 1..Len(ops) :
       ops[k].by \in ButtonParts /\ ops[k].op = "fillRect" /\ ClipDepth(k) = 0
  /\ \E k \in 1..Len(ops) :
       ops[k].by = "battery" /\ ops[k].op = "print" /\ ClipDepth(k) = 0
  /\ \E k \in 1..Len(ops) :
       ops[k].by = "rtc" /\ ops[k].op = "drawString" /\ ClipDepth(k) = 0

\* The weekday update_rtc used in this tick: weekDay of the RTC reading
\* when getDateTime succeeded (line 53), tm_wday otherwise (line 75).
WeekdayRead ==
  IF cur.clock.ok THEN cur.clock.dt.weekDay ELSE cur.clock.tm.tm_wday

\* The low three bits of w are all set: w is 7 more than a multiple of 8.
LowBitsSeven(w) == \E q \in (-17)..16 : w = 8 * q + 7

\* The date string with the n-th entry of the weekday table, counted from 0.
DateWithEntry(n) ==
  "2026/03/09("
    \o <<"Sun", "Mon", "Tue", "Wed", "Thr", "Fri", "Sat", "ERR">>[n + 1]
    \o ")"

C37_ReadWithinBuffer == bytes_read <= WAV_BUFFER_SIZE

\* What the code does guarantee: it never stores more bytes than the file
\* has, every read is into an allocated buffer, and the bytes stored exceed
\* the buffer only for a file larger than the buffer.
C37_ReadWithinFile ==
  /\ bytes_read <= file_size
  /\ bytes_read > 0 => wav_buffer = "allocated"
  /\ bytes_read > WAV_BUFFER_SIZE => file_size > WAV_BUFFER_SIZE

\* A startup file of 48001 bytes was read whole into the buffer of 48000
\* bytes, and the call went on to play it.
C37_Witness ==
  /\ startup_pc = "play"
  /\ file_size = WAV_BUFFER_SIZE + 1
  /\ bytes_read = file_size
  /\ wav_buffer = "allocated"

====
